---- MODULE Spec2Model ----
(***************************************************************************)
(* A model of the aggregation and scoring code of the simulation study:   *)
(*   - figures.py    plot_example_aggregation, plot_panel_model            *)
(*   - results.py    get_panel_data                                        *)
(*   - BQNModels.py  BQNBaseModel.predict / get_results                    *)
(* Each function is a small state machine of its own (SpecAgg, SpecPanel,  *)
(* SpecRes); the variables of the other functions keep their initial       *)
(* values while one of them runs.                                          *)
(*                                                                         *)
(* Real numbers are exact rationals <<num, den>> with den > 0.  The values *)
(* of scipy's norm.cdf / norm.pdf are tabulated in steps of 1/100 of z,    *)
(* interpolated linearly in between and rounded to 1/10000.                *)
(***************************************************************************)
EXTENDS Integers, Sequences, FiniteSets, TLC

VARIABLES
    \* ---- plot_example_aggregation (figures.py) ----
    agg_pc,     \* position in plot_example_aggregation
    n,          \* number of forecasts to aggregate
    mu,         \* mu_1, mu_2, ...: locations of the individual forecasts
    sd,         \* sd_1, sd_2, ...: scales of the individual forecasts
    df_plot,    \* the data frame: column y, columns p_<label>, d_<label>
    i_loop,     \* index of the next iteration of the running for-loop
    temp,       \* loop variable of the Vincentization loop ("" before it)
    a,          \* intercept of the current Vincentization approach
    w,          \* weight of the current Vincentization approach
    mu_vi,      \* mean of the current Vincentization approach
    sd_vi,      \* sd of the current Vincentization approach
    \* ---- get_panel_data (results.py), plot_panel_model (figures.py) ----
    eval_files, \* the pickled score tables eval_{dataset}_{ens_method}.pkl
    panel,      \* what the last call of get_panel_data returned
    panel_call, \* the ens_method of that call ("" before the first call)
    plot_panel, \* df_plot of plot_panel_model, per scenario
    plot_call,  \* the file plot_panel_model read ("" before the call)
    best,       \* what get_best_result_table returned (<<>> before the call)
    \* ---- BQNBaseModel (BQNModels.py) ----
    self_n_ens,       \* self.n_ens
    self_q_levels,    \* self.q_levels
    self_coeff_bern,  \* self.coeff_bern (<<>> before predict)
    y_test,           \* the argument of the last call of get_results
    results,          \* what that call returned (<<>> before it)
    \* ---- ss_1_ensemble.py: the parallel dispatch of run_ensemble ----
    data_in,    \* the (scenario, replicate) pairs whose input file exists
    dispatch,   \* "idle", "running", "done" or "aborted" (an exception)
    job,        \* the state of every task of the dispatch
    rng,        \* the seed and the draws of numpy's generator per worker
    disk,       \* the files written: which member under which name, and
                \* whether pickle.dump has completed
    saves,      \* how often each member was saved
    \* ---- run_all.py: the script that runs the whole study ----
    multi_run,  \* the flag of line 29
    CONFIG,     \* the ENS_METHOD entry of src/config.json
    run_pc,     \* position in the script
    i_method,   \* index of ens_method in methods (0: no method loop)
    i_stage,    \* index in Stages of the call to make or being made
    units,      \* the unfinished work of the stages called so far
    run_log,    \* the calls made, the returns and the exception, in order
    \* ---- the readers of the persisted results (results.py, figures.py) ----
    reader,     \* the running reader: "get_panel_data" or "plot_pit_ens"
    on_disk,    \* the files that exist
    n_valid,    \* column n_valid of eval_ss.pkl
    pit_n_test, \* column n_test of eval_ss.pkl
    read_pc,    \* "loop" (before an open), "hist" (the histograms of a
                \* scenario), "done" or "raised" (an exception left the reader)
    read_pos,   \* index in the reader's sequence of reads of the next read
    loaded,     \* the files read so far, in order
    temp_pit,   \* the list temp_pit of plot_pit_ens
    pit_ls,     \* the dictionary pit_ls of plot_pit_ens, as a set of pairs
    \* ---- get_skills_table (results.py) ----
    skills_call, \* the arguments n_ens_vec and score_vec of the call
    df_skills    \* what get_skills_table returned (<<>> before the call)

aggVars == <<agg_pc, n, mu, sd, df_plot, i_loop, temp, a, w, mu_vi, sd_vi>>

panelVars == <<eval_files, panel, panel_call, plot_panel, plot_call, best>>

resVars == <<self_n_ens, self_q_levels, self_coeff_bern, y_test, results>>

ensVars == <<data_in, dispatch, job, rng, disk, saves>>

runVars == <<multi_run, CONFIG, run_pc, i_method, i_stage, units, run_log>>

readVars == <<reader, on_disk, n_valid, pit_n_test, read_pc, read_pos, loaded,
              temp_pit, pit_ls>>

skillVars == <<skills_call, df_skills>>

vars == <<aggVars, panelVars, resVars, ensVars, runVars, readVars, skillVars>>

(***************************************************************************)
(* The state of a function that is not running.                            *)
(***************************************************************************)
AggIdle ==
    /\ agg_pc = "idle"
    /\ n = 0
    /\ mu = <<>>
    /\ sd = <<>>
    /\ df_plot = <<>>
    /\ i_loop = 1
    /\ temp = ""
    /\ a = <<0, 1>>
    /\ w = <<0, 1>>
    /\ mu_vi = <<0, 1>>
    /\ sd_vi = <<0, 1>>

\* no panel, plot or table has been computed
NothingComputed ==
    /\ panel = <<>>
    /\ panel_call = ""
    /\ plot_panel = <<>>
    /\ plot_call = ""
    /\ best = <<>>

PanelIdle ==
    /\ eval_files = <<>>
    /\ NothingComputed

ResIdle ==
    /\ self_n_ens = 0
    /\ self_q_levels = <<>>
    /\ self_coeff_bern = <<>>
    /\ y_test = <<>>
    /\ results = <<>>

EnsIdle ==
    /\ data_in = {}
    /\ dispatch = "idle"
    /\ job = <<>>
    /\ rng = <<>>
    /\ disk = {}
    /\ saves = <<>>

RunIdle ==
    /\ multi_run = FALSE
    /\ CONFIG = ""
    /\ run_pc = "idle"
    /\ i_method = 0
    /\ i_stage = 0
    /\ units = {}
    /\ run_log = <<>>

SkillIdle ==
    /\ skills_call = <<>>
    /\ df_skills = <<>>

ReadIdle ==
    /\ reader = ""
    /\ on_disk = {}
    /\ n_valid = 0
    /\ pit_n_test = 0
    /\ read_pc = "idle"
    /\ read_pos = 0
    /\ loaded = <<>>
    /\ temp_pit = <<>>
    /\ pit_ls = {}

(***************************************************************************)
(* Bounds of the model.                                                    *)
(***************************************************************************)
\* number of grid points of df_plot["y"] (the example uses n_plot = 1000)
n_plot == 5

\* largest ensemble size n_ens of a BQN model
MaxEns == 3

\* largest number of quantile levels of a BQN model
MaxLevels == 3

\* degree of the Bernstein polynomials (hpar["p_degree"] is 12)
p_degree == 2

\* 1 / step of the default grid of quantile levels (the code has step = 1/100)
DefaultSteps == 4

\* number of simulated runs per scenario (ss_1_ensemble.py has n_sim = 10)
n_sim == 2

\* size of the network ensembles (ss_1_ensemble.py has n_ens = 10)
sim_n_ens == 2

\* number of worker processes (ss_1_ensemble.py has n_jobs = 7)
n_jobs == 2

\* largest number of units of work one call of run_all.py starts
MaxUnits == 2

\* largest number of validation rows and of test rows
MaxValid == 2

MaxTest == 2

(***************************************************************************)
(* Exact rational arithmetic.                                              *)
(***************************************************************************)
RECURSIVE GCD(_, _)
GCD(x, y) == IF y = 0 THEN x ELSE GCD(y, x % y)

Abs(x) == IF x < 0 THEN -x ELSE x

\* the rational num/den (den > 0) in lowest terms
Norm(num, den) ==
    LET g == GCD(Abs(num), den) IN <<num \div g, den \div g>>

Rat(x) == <<x, 1>>

RAdd(x, y) == Norm(x[1] * y[2] + y[1] * x[2], x[2] * y[2])

RSub(x, y) == Norm(x[1] * y[2] - y[1] * x[2], x[2] * y[2])

RMul(x, y) == Norm(x[1] * y[1], x[2] * y[2])

\* x / y for y > 0
RDivPos(x, y) == Norm(x[1] * y[2], x[2] * y[1])

REq(x, y) == x[1] * y[2] = y[1] * x[2]

RLe(x, y) == x[1] * y[2] <= y[1] * x[2]

RLt(x, y) == x[1] * y[2] < y[1] * x[2]

\* floor(s * x) for an integer s > 0 (\div rounds towards minus infinity)
RFloorScaled(x, s) == (s * x[1]) \div x[2]

RECURSIVE RSum(_)
RSum(xs) == IF xs = <<>> THEN Rat(0) ELSE RAdd(xs[1], RSum(Tail(xs)))

RECURSIVE SeqSum(_)
SeqSum(xs) == IF xs = <<>> THEN 0 ELSE xs[1] + SeqSum(Tail(xs))

(***************************************************************************)
(* scipy.stats.norm: cdf and pdf of N(loc, scale).  Phi and phi are        *)
(* tabulated at z = -5, -4.99, ..., 5 in units of 1/1000000, interpolated  *)
(* linearly in between and rounded to 1/10000: a value differs from        *)
(* scipy's by less than 1/10000.  Outside [-5, 5] both round to 0 or 1.    *)
(***************************************************************************)
\* Phi(z) at z = -5, -4.99, ..., 5, in units of 1/1000000
PhiTable ==
    <<0, 0, 0, 0, 0, 0, 0, 0, 0, 0,
      0, 1, 1, 1, 1, 1, 1, 1, 1, 1,
      1, 1, 1, 1, 1, 1, 1, 1, 1, 1,
      1, 1, 1, 2, 2, 2, 2, 2, 2, 2,
      2, 2, 2, 2, 3, 3, 3, 3, 3, 3,
      3, 4, 4, 4, 4, 4, 4, 5, 5, 5,
      5, 6, 6, 6, 7, 7, 7, 7, 8, 8,
      9, 9, 9, 10, 10, 11, 11, 12, 12, 13,
      13, 14, 15, 15, 16, 17, 17, 18, 19, 20,
      21, 22, 23, 24, 25, 26, 27, 28, 29, 30,
      32, 33, 34, 36, 37, 39, 41, 42, 44, 46,
      48, 50, 52, 54, 57, 59, 62, 64, 67, 69,
      72, 75, 78, 82, 85, 88, 92, 96, 100, 104,
      108, 112, 117, 121, 126, 131, 136, 142, 147, 153,
      159, 165, 172, 178, 185, 193, 200, 208, 216, 224,
      233, 242, 251, 260, 270, 280, 291, 302, 313, 325,
      337, 349, 362, 376, 390, 404, 419, 434, 450, 466,
      483, 501, 519, 538, 557, 577, 598, 619, 641, 664,
      687, 711, 736, 762, 789, 816, 845, 874, 904, 935,
      968, 1001, 1035, 1070, 1107, 1144, 1183, 1223, 1264, 1306,
      1350, 1395, 1441, 1489, 1538, 1589, 1641, 1695, 1750, 1807,
      1866, 1926, 1988, 2052, 2118, 2186, 2256, 2327, 2401, 2477,
      2555, 2635, 2718, 2803, 2890, 2980, 3072, 3167, 3264, 3364,
      3467, 3573, 3681, 3793, 3907, 4025, 4145, 4269, 4396, 4527,
      4661, 4799, 4940, 5085, 5234, 5386, 5543, 5703, 5868, 6037,
      6210, 6387, 6569, 6756, 6947, 7143, 7344, 7549, 7760, 7976,
      8198, 8424, 8656, 8894, 9137, 9387, 9642, 9903, 10170, 10444,
      10724, 11011, 11304, 11604, 11911, 12224, 12545, 12874, 13209, 13553,
      13903, 14262, 14629, 15003, 15386, 15778, 16177, 16586, 17003, 17429,
      17864, 18309, 18763, 19226, 19699, 20182, 20675, 21178, 21692, 22216,
      22750, 23295, 23852, 24419, 24998, 25588, 26190, 26803, 27429, 28067,
      28717, 29379, 30054, 30742, 31443, 32157, 32884, 33625, 34380, 35148,
      35930, 36727, 37538, 38364, 39204, 40059, 40930, 41815, 42716, 43633,
      44565, 45514, 46479, 47460, 48457, 49471, 50503, 51551, 52616, 53699,
      54799, 55917, 57053, 58208, 59380, 60571, 61780, 63008, 64255, 65522,
      66807, 68112, 69437, 70781, 72145, 73529, 74934, 76359, 77804, 79270,
      80757, 82264, 83793, 85343, 86915, 88508, 90123, 91759, 93418, 95098,
      96800, 98525, 100273, 102042, 103835, 105650, 107488, 109349, 111232, 113139,
      115070, 117023, 119000, 121000, 123024, 125072, 127143, 129238, 131357, 133500,
      135666, 137857, 140071, 142310, 144572, 146859, 149170, 151505, 153864, 156248,
      158655, 161087, 163543, 166023, 168528, 171056, 173609, 176186, 178786, 181411,
      184060, 186733, 189430, 192150, 194895, 197663, 200454, 203269, 206108, 208970,
      211855, 214764, 217695, 220650, 223627, 226627, 229650, 232695, 235762, 238852,
      241964, 245097, 248252, 251429, 254627, 257846, 261086, 264347, 267629, 270931,
      274253, 277595, 280957, 284339, 287740, 291160, 294599, 298056, 301532, 305026,
      308538, 312067, 315614, 319178, 322758, 326355, 329969, 333598, 337243, 340903,
      344578, 348268, 351973, 355691, 359424, 363169, 366928, 370700, 374484, 378280,
      382089, 385908, 389739, 393580, 397432, 401294, 405165, 409046, 412936, 416834,
      420740, 424655, 428576, 432505, 436441, 440382, 444330, 448283, 452242, 456205,
      460172, 464144, 468119, 472097, 476078, 480061, 484047, 488034, 492022, 496011,
      500000, 503989, 507978, 511966, 515953, 519939, 523922, 527903, 531881, 535856,
      539828, 543795, 547758, 551717, 555670, 559618, 563559, 567495, 571424, 575345,
      579260, 583166, 587064, 590954, 594835, 598706, 602568, 606420, 610261, 614092,
      617911, 621720, 625516, 629300, 633072, 636831, 640576, 644309, 648027, 651732,
      655422, 659097, 662757, 666402, 670031, 673645, 677242, 680822, 684386, 687933,
      691462, 694974, 698468, 701944, 705401, 708840, 712260, 715661, 719043, 722405,
      725747, 729069, 732371, 735653, 738914, 742154, 745373, 748571, 751748, 754903,
      758036, 761148, 764238, 767305, 770350, 773373, 776373, 779350, 782305, 785236,
      788145, 791030, 793892, 796731, 799546, 802337, 805105, 807850, 810570, 813267,
      815940, 818589, 821214, 823814, 826391, 828944, 831472, 833977, 836457, 838913,
      841345, 843752, 846136, 848495, 850830, 853141, 855428, 857690, 859929, 862143,
      864334, 866500, 868643, 870762, 872857, 874928, 876976, 879000, 881000, 882977,
      884930, 886861, 888768, 890651, 892512, 894350, 896165, 897958, 899727, 901475,
      903200, 904902, 906582, 908241, 909877, 911492, 913085, 914657, 916207, 917736,
      919243, 920730, 922196, 923641, 925066, 926471, 927855, 929219, 930563, 931888,
      933193, 934478, 935745, 936992, 938220, 939429, 940620, 941792, 942947, 944083,
      945201, 946301, 947384, 948449, 949497, 950529, 951543, 952540, 953521, 954486,
      955435, 956367, 957284, 958185, 959070, 959941, 960796, 961636, 962462, 963273,
      964070, 964852, 965620, 966375, 967116, 967843, 968557, 969258, 969946, 970621,
      971283, 971933, 972571, 973197, 973810, 974412, 975002, 975581, 976148, 976705,
      977250, 977784, 978308, 978822, 979325, 979818, 980301, 980774, 981237, 981691,
      982136, 982571, 982997, 983414, 983823, 984222, 984614, 984997, 985371, 985738,
      986097, 986447, 986791, 987126, 987455, 987776, 988089, 988396, 988696, 988989,
      989276, 989556, 989830, 990097, 990358, 990613, 990863, 991106, 991344, 991576,
      991802, 992024, 992240, 992451, 992656, 992857, 993053, 993244, 993431, 993613,
      993790, 993963, 994132, 994297, 994457, 994614, 994766, 994915, 995060, 995201,
      995339, 995473, 995604, 995731, 995855, 995975, 996093, 996207, 996319, 996427,
      996533, 996636, 996736, 996833, 996928, 997020, 997110, 997197, 997282, 997365,
      997445, 997523, 997599, 997673, 997744, 997814, 997882, 997948, 998012, 998074,
      998134, 998193, 998250, 998305, 998359, 998411, 998462, 998511, 998559, 998605,
      998650, 998694, 998736, 998777, 998817, 998856, 998893, 998930, 998965, 998999,
      999032, 999065, 999096, 999126, 999155, 999184, 999211, 999238, 999264, 999289,
      999313, 999336, 999359, 999381, 999402, 999423, 999443, 999462, 999481, 999499,
      999517, 999534, 999550, 999566, 999581, 999596, 999610, 999624, 999638, 999651,
      999663, 999675, 999687, 999698, 999709, 999720, 999730, 999740, 999749, 999758,
      999767, 999776, 999784, 999792, 999800, 999807, 999815, 999822, 999828, 999835,
      999841, 999847, 999853, 999858, 999864, 999869, 999874, 999879, 999883, 999888,
      999892, 999896, 999900, 999904, 999908, 999912, 999915, 999918, 999922, 999925,
      999928, 999931, 999933, 999936, 999938, 999941, 999943, 999946, 999948, 999950,
      999952, 999954, 999956, 999958, 999959, 999961, 999963, 999964, 999966, 999967,
      999968, 999970, 999971, 999972, 999973, 999974, 999975, 999976, 999977, 999978,
      999979, 999980, 999981, 999982, 999983, 999983, 999984, 999985, 999985, 999986,
      999987, 999987, 999988, 999988, 999989, 999989, 999990, 999990, 999991, 999991,
      999991, 999992, 999992, 999993, 999993, 999993, 999993, 999994, 999994, 999994,
      999995, 999995, 999995, 999995, 999996, 999996, 999996, 999996, 999996, 999996,
      999997, 999997, 999997, 999997, 999997, 999997, 999997, 999998, 999998, 999998,
      999998, 999998, 999998, 999998, 999998, 999998, 999998, 999998, 999999, 999999,
      999999, 999999, 999999, 999999, 999999, 999999, 999999, 999999, 999999, 999999,
      999999, 999999, 999999, 999999, 999999, 999999, 999999, 999999, 999999, 999999,
      1000000, 1000000, 1000000, 1000000, 1000000, 1000000, 1000000, 1000000, 1000000, 1000000,
      1000000>>

\* phi(z) at z = -5, -4.99, ..., 5, in units of 1/1000000
DensTable ==
    <<1, 2, 2, 2, 2, 2, 2, 2, 2, 2,
      2, 3, 3, 3, 3, 3, 3, 3, 4, 4,
      4, 4, 4, 5, 5, 5, 5, 6, 6, 6,
      6, 7, 7, 7, 8, 8, 8, 9, 9, 10,
      10, 11, 11, 12, 12, 13, 13, 14, 15, 15,
      16, 17, 17, 18, 19, 20, 21, 22, 23, 24,
      25, 26, 27, 28, 30, 31, 32, 34, 35, 37,
      39, 40, 42, 44, 46, 48, 50, 52, 54, 57,
      59, 61, 64, 67, 70, 73, 76, 79, 82, 86,
      89, 93, 97, 101, 105, 109, 114, 119, 124, 129,
      134, 139, 145, 151, 157, 163, 170, 177, 184, 191,
      199, 207, 215, 223, 232, 241, 251, 260, 271, 281,
      292, 303, 315, 327, 340, 353, 366, 380, 394, 409,
      425, 441, 457, 474, 492, 510, 529, 549, 569, 590,
      612, 634, 657, 681, 706, 732, 758, 785, 814, 843,
      873, 904, 936, 969, 1003, 1038, 1075, 1112, 1151, 1191,
      1232, 1275, 1319, 1364, 1411, 1459, 1508, 1560, 1612, 1667,
      1723, 1780, 1840, 1901, 1964, 2029, 2096, 2165, 2236, 2309,
      2384, 2461, 2541, 2623, 2707, 2794, 2884, 2975, 3070, 3167,
      3267, 3370, 3475, 3584, 3695, 3810, 3928, 4049, 4173, 4301,
      4432, 4567, 4705, 4847, 4993, 5143, 5296, 5454, 5616, 5782,
      5953, 6127, 6307, 6491, 6679, 6873, 7071, 7274, 7483, 7697,
      7915, 8140, 8370, 8605, 8846, 9094, 9347, 9606, 9871, 10143,
      10421, 10706, 10997, 11295, 11600, 11912, 12232, 12558, 12892, 13234,
      13583, 13940, 14305, 14678, 15060, 15449, 15848, 16254, 16670, 17095,
      17528, 17971, 18423, 18885, 19356, 19837, 20328, 20829, 21341, 21862,
      22395, 22937, 23491, 24056, 24631, 25218, 25817, 26426, 27048, 27682,
      28327, 28985, 29655, 30337, 31032, 31740, 32460, 33194, 33941, 34701,
      35475, 36262, 37063, 37878, 38707, 39550, 40408, 41280, 42166, 43067,
      43984, 44915, 45861, 46823, 47800, 48792, 49800, 50824, 51864, 52919,
      53991, 55079, 56183, 57304, 58441, 59595, 60765, 61952, 63157, 64378,
      65616, 66871, 68144, 69433, 70740, 72065, 73407, 74766, 76143, 77538,
      78950, 80380, 81828, 83293, 84776, 86277, 87796, 89333, 90887, 92459,
      94049, 95657, 97282, 98925, 100586, 102265, 103961, 105675, 107406, 109155,
      110921, 112704, 114505, 116323, 118157, 120009, 121878, 123763, 125665, 127583,
      129518, 131468, 133435, 135418, 137417, 139431, 141460, 143505, 145564, 147639,
      149727, 151831, 153948, 156080, 158225, 160383, 162555, 164740, 166937, 169147,
      171369, 173602, 175847, 178104, 180371, 182649, 184937, 187235, 189543, 191860,
      194186, 196520, 198863, 201214, 203571, 205936, 208308, 210686, 213069, 215458,
      217852, 220251, 222653, 225060, 227470, 229882, 232297, 234714, 237132, 239551,
      241971, 244390, 246809, 249228, 251644, 254059, 256471, 258881, 261286, 263688,
      266085, 268477, 270864, 273244, 275618, 277985, 280344, 282694, 285036, 287369,
      289692, 292004, 294305, 296595, 298872, 301137, 303389, 305627, 307851, 310060,
      312254, 314432, 316593, 318737, 320864, 322972, 325062, 327133, 329184, 331215,
      333225, 335213, 337180, 339124, 341046, 342944, 344818, 346668, 348493, 350292,
      352065, 353812, 355533, 357225, 358890, 360527, 362135, 363714, 365263, 366782,
      368270, 369728, 371154, 372548, 373911, 375240, 376537, 377801, 379031, 380226,
      381388, 382515, 383606, 384663, 385683, 386668, 387617, 388529, 389404, 390242,
      391043, 391806, 392531, 393219, 393868, 394479, 395052, 395585, 396080, 396536,
      396953, 397330, 397668, 397966, 398225, 398444, 398623, 398763, 398862, 398922,
      398942, 398922, 398862, 398763, 398623, 398444, 398225, 397966, 397668, 397330,
      396953, 396536, 396080, 395585, 395052, 394479, 393868, 393219, 392531, 391806,
      391043, 390242, 389404, 388529, 387617, 386668, 385683, 384663, 383606, 382515,
      381388, 380226, 379031, 377801, 376537, 375240, 373911, 372548, 371154, 369728,
      368270, 366782, 365263, 363714, 362135, 360527, 358890, 357225, 355533, 353812,
      352065, 350292, 348493, 346668, 344818, 342944, 341046, 339124, 337180, 335213,
      333225, 331215, 329184, 327133, 325062, 322972, 320864, 318737, 316593, 314432,
      312254, 310060, 307851, 305627, 303389, 301137, 298872, 296595, 294305, 292004,
      289692, 287369, 285036, 282694, 280344, 277985, 275618, 273244, 270864, 268477,
      266085, 263688, 261286, 258881, 256471, 254059, 251644, 249228, 246809, 244390,
      241971, 239551, 237132, 234714, 232297, 229882, 227470, 225060, 222653, 220251,
      217852, 215458, 213069, 210686, 208308, 205936, 203571, 201214, 198863, 196520,
      194186, 191860, 189543, 187235, 184937, 182649, 180371, 178104, 175847, 173602,
      171369, 169147, 166937, 164740, 162555, 160383, 158225, 156080, 153948, 151831,
      149727, 147639, 145564, 143505, 141460, 139431, 137417, 135418, 133435, 131468,
      129518, 127583, 125665, 123763, 121878, 120009, 118157, 116323, 114505, 112704,
      110921, 109155, 107406, 105675, 103961, 102265, 100586, 98925, 97282, 95657,
      94049, 92459, 90887, 89333, 87796, 86277, 84776, 83293, 81828, 80380,
      78950, 77538, 76143, 74766, 73407, 72065, 70740, 69433, 68144, 66871,
      65616, 64378, 63157, 61952, 60765, 59595, 58441, 57304, 56183, 55079,
      53991, 52919, 51864, 50824, 49800, 48792, 47800, 46823, 45861, 44915,
      43984, 43067, 42166, 41280, 40408, 39550, 38707, 37878, 37063, 36262,
      35475, 34701, 33941, 33194, 32460, 31740, 31032, 30337, 29655, 28985,
      28327, 27682, 27048, 26426, 25817, 25218, 24631, 24056, 23491, 22937,
      22395, 21862, 21341, 20829, 20328, 19837, 19356, 18885, 18423, 17971,
      17528, 17095, 16670, 16254, 15848, 15449, 15060, 14678, 14305, 13940,
      13583, 13234, 12892, 12558, 12232, 11912, 11600, 11295, 10997, 10706,
      10421, 10143, 9871, 9606, 9347, 9094, 8846, 8605, 8370, 8140,
      7915, 7697, 7483, 7274, 7071, 6873, 6679, 6491, 6307, 6127,
      5953, 5782, 5616, 5454, 5296, 5143, 4993, 4847, 4705, 4567,
      4432, 4301, 4173, 4049, 3928, 3810, 3695, 3584, 3475, 3370,
      3267, 3167, 3070, 2975, 2884, 2794, 2707, 2623, 2541, 2461,
      2384, 2309, 2236, 2165, 2096, 2029, 1964, 1901, 1840, 1780,
      1723, 1667, 1612, 1560, 1508, 1459, 1411, 1364, 1319, 1275,
      1232, 1191, 1151, 1112, 1075, 1038, 1003, 969, 936, 904,
      873, 843, 814, 785, 758, 732, 706, 681, 657, 634,
      612, 590, 569, 549, 529, 510, 492, 474, 457, 441,
      425, 409, 394, 380, 366, 353, 340, 327, 315, 303,
      292, 281, 271, 260, 251, 241, 232, 223, 215, 207,
      199, 191, 184, 177, 170, 163, 157, 151, 145, 139,
      134, 129, 124, 119, 114, 109, 105, 101, 97, 93,
      89, 86, 82, 79, 76, 73, 70, 67, 64, 61,
      59, 57, 54, 52, 50, 48, 46, 44, 42, 40,
      39, 37, 35, 34, 32, 31, 30, 28, 27, 26,
      25, 24, 23, 22, 21, 20, 19, 18, 17, 17,
      16, 15, 15, 14, 13, 13, 12, 12, 11, 11,
      10, 10, 9, 9, 8, 8, 8, 7, 7, 7,
      6, 6, 6, 6, 5, 5, 5, 5, 4, 4,
      4, 4, 4, 3, 3, 3, 3, 3, 3, 3,
      2, 2, 2, 2, 2, 2, 2, 2, 2, 2,
      1>>

\* floor(1000000 * z) for |z| < 5, in two steps of 1000
ZMicro(z) ==
    LET thousandths == RFloorScaled(z, 1000)
        rest        == 1000 * z[1] - thousandths * z[2]
    IN  1000 * thousandths + (1000 * rest) \div z[2]

\* linear interpolation of a table at the rational z
Interp(table, z, below, above) ==
    IF RLe(z, Rat(-5)) THEN below
    ELSE IF RLe(Rat(5), z) THEN above
    ELSE LET k == ZMicro(z) \div 10000
             f == ZMicro(z) - 10000 * k
         IN  table[k + 501] + ((table[k + 502] - table[k + 501]) * f) \div 10000

\* a value in units of 1/1000000 rounded to units of 1/10000
RoundUnits(v) == (v + 50) \div 100

\* ss.norm.cdf(x, loc, scale) as a rational
norm_cdf(x, loc, scale) ==
    LET z == RDivPos(RSub(x, loc), scale)
    IN  Norm(RoundUnits(Interp(PhiTable, z, 0, 1000000)), 10000)

\* ss.norm.pdf(x, loc, scale) as a rational: phi(z) / scale
norm_pdf(x, loc, scale) ==
    LET z == RDivPos(RSub(x, loc), scale)
    IN  RDivPos(Norm(RoundUnits(Interp(DensTable, z, 0, 0)), 10000), scale)

(***************************************************************************)
(* plot_example_aggregation (figures.py, lines 94-163).                    *)
(***************************************************************************)
\* agg_meths_plot
agg_meths_plot == <<"lp", "vi", "vi-a", "vi-w", "vi-aw">>

\* [element for element in agg_meths_plot if "vi" in element]
vi_meths == SelectSeq(agg_meths_plot, LAMBDA e : e # "lp")

\* the labels of the two individual forecasts: for temp in ["1", "2"]
MemberLabels == <<"1", "2">>

\* lower and upper boundaries of the grid
lower == <<1, 2>>

upper == <<27, 2>>

\* np.linspace(start=lower, stop=upper, num=n_plot)
linspace(start, stop, num) ==
    [i \in 1 .. num |->
        RAdd(start, RMul(Rat(i - 1), RDivPos(RSub(stop, start), Rat(num - 1))))]

\* the estimated intercept of the example
a_est == -6

\* the amount by which the estimated weight of the example exceeds 1/n
w_excess == <<15, 100>>

\* the intercept a of approach t (lines 140-144)
IntercBug(t) == IF t \in {"vi"} THEN Rat(0) ELSE Rat(a_est)

Intercept(t) == IF t \in {"vi", "vi-w"} THEN Rat(0) ELSE Rat(a_est)

\* the weight w of approach t for k forecasts (lines 146-150)
WeightBug(t, k) == <<1, k>>

Weight(t, k) ==
    IF t \in {"vi", "vi-a"} THEN <<1, k>> ELSE RAdd(<<1, k>>, w_excess)

\* mu_vi = a + w * sum([mu_1, mu_2]) (line 153)
MuViBug(ai, wi, mus) == RAdd(ai, RMul(wi, Rat(mus[1])))

MuVi(ai, wi, mus) == RAdd(ai, RMul(wi, Rat(SeqSum(<<mus[1], mus[2]>>))))

\* sd_vi = w * sum([sd_1, sd_2]) (line 154)
SdVi(wi, sds) == RMul(wi, Rat(SeqSum(<<sds[1], sds[2]>>)))

\* df[[columns]].mean(axis=1) at row i: the mean over the listed columns
RowMeanBug(cols, i) == cols[1][i]

RowMean(cols, i) ==
    RDivPos(RSum([k \in 1 .. Len(cols) |-> cols[k][i]]), Rat(Len(cols)))

\* df_plot[["p_1", "p_2"]] (or ["d_1", "d_2"]): the two listed columns
MemberCols(kind) == <<df_plot[kind]["1"], df_plot[kind]["2"]>>

\* the parameters of the individual forecasts the example is run on
MuSet == {7, 10}

SdSet == {1, 2}

AggInit ==
    /\ agg_pc = "members"
    /\ n = 2
    /\ mu \in [1 .. 2 -> MuSet]
    /\ sd \in [1 .. 2 -> SdSet]
    /\ df_plot = [y |-> linspace(lower, upper, n_plot), p |-> <<>>, d |-> <<>>]
    /\ i_loop = 1
    /\ temp = ""
    /\ a = Rat(0)
    /\ w = Rat(0)
    /\ mu_vi = Rat(0)
    /\ sd_vi = Rat(0)
    /\ PanelIdle
    /\ ResIdle
    /\ EnsIdle
    /\ RunIdle
    /\ ReadIdle
    /\ SkillIdle

\* lines 121-132: probabilities and densities of one individual forecast
MemberForecast ==
    /\ agg_pc = "members"
    /\ LET lab == MemberLabels[i_loop]
           pc == [i \in 1 .. n_plot |->
                    norm_cdf(df_plot.y[i], Rat(mu[i_loop]), Rat(sd[i_loop]))]
           dc == [i \in 1 .. n_plot |->
                    norm_pdf(df_plot.y[i], Rat(mu[i_loop]), Rat(sd[i_loop]))]
       IN  df_plot' = [df_plot EXCEPT !.p = (lab :> pc) @@ @,
                                      !.d = (lab :> dc) @@ @]
    /\ IF i_loop < Len(MemberLabels)
          THEN i_loop' = i_loop + 1 /\ agg_pc' = agg_pc
          ELSE i_loop' = 1 /\ agg_pc' = "lp"
    /\ UNCHANGED <<skillVars, readVars, runVars, n, mu, sd, temp, a, w, mu_vi, sd_vi, panelVars, resVars, ensVars>>

\* lines 134-136: the Linear Pool
LinearPool ==
    /\ agg_pc = "lp"
    /\ LET pc == [i \in 1 .. n_plot |-> RowMean(MemberCols("p"), i)]
           dc == [i \in 1 .. n_plot |-> RowMean(MemberCols("d"), i)]
       IN  df_plot' = [df_plot EXCEPT !.p = ("lp" :> pc) @@ @,
                                      !.d = ("lp" :> dc) @@ @]
    /\ agg_pc' = "vi"
    /\ UNCHANGED <<skillVars, readVars, runVars, n, mu, sd, i_loop, temp, a, w, mu_vi, sd_vi, panelVars,
                   resVars, ensVars>>

\* lines 138-163: one iteration of the loop over the Vincentization approaches
Vincentization ==
    /\ agg_pc = "vi"
    /\ LET t  == vi_meths[i_loop]
           ai == Intercept(t)
           wi == Weight(t, n)
           m  == MuVi(ai, wi, mu)
           s  == SdVi(wi, sd)
           pc == [i \in 1 .. n_plot |-> norm_cdf(df_plot.y[i], m, s)]
           dc == [i \in 1 .. n_plot |-> norm_pdf(df_plot.y[i], m, s)]
       IN  /\ temp' = t
           /\ a' = ai
           /\ w' = wi
           /\ mu_vi' = m
           /\ sd_vi' = s
           /\ df_plot' = [df_plot EXCEPT !.p = (t :> pc) @@ @,
                                          !.d = (t :> dc) @@ @]
    /\ IF i_loop < Len(vi_meths)
          THEN i_loop' = i_loop + 1 /\ agg_pc' = agg_pc
          ELSE i_loop' = 1 /\ agg_pc' = "plot"
    /\ UNCHANGED <<skillVars, readVars, runVars, n, mu, sd, panelVars, resVars, ensVars>>

AggNext == MemberForecast \/ LinearPool \/ Vincentization

SpecAgg == AggInit /\ [][AggNext]_vars

(***************************************************************************)
(* Claims about plot_example_aggregation, checked under SpecAgg.           *)
(***************************************************************************)
\* the standard normal quantiles z_p at which quantile functions are compared
ZLevels == {-2, -1, 0, 1, 2}

\* the quantile mu + sd * z_p of N(m, s) at the level p with Phi(z_p) = p
NormQuantile(m, s, z) == RAdd(m, RMul(s, Rat(z)))

\* the sum of the weights applied to the n members (each member gets w)
WeightSum == RSum([k \in 1 .. n |-> w])

\* a Vincentization approach has been computed
ViComputed == temp # ""

\* C1: the aggregated forecast of every Vincentization approach is
\* a + sum_k w * Q_k; the intercept is 0 in vi and vi-w and every weight is
\* 1/n in vi and vi-a.
C1_VincentizationParameterization ==
    ViComputed =>
        /\ (temp \in {"vi", "vi-w"} => REq(a, Rat(0)))
        /\ (temp \in {"vi", "vi-a"} => REq(w, <<1, n>>))
        /\ REq(mu_vi, RAdd(a, RSum([k \in 1 .. n |-> RMul(w, Rat(mu[k]))])))
        /\ REq(sd_vi, RSum([k \in 1 .. n |-> RMul(w, Rat(sd[k]))]))
        /\ \A z \in ZLevels :
              REq(NormQuantile(mu_vi, sd_vi, z),
                  RAdd(a, RSum([k \in 1 .. n |->
                      RMul(w, NormQuantile(Rat(mu[k]), Rat(sd[k]), z))])))
        /\ df_plot.p[temp] =
              [i \in 1 .. n_plot |-> norm_cdf(df_plot.y[i], mu_vi, sd_vi)]

\* C1 witness: vi-aw has been computed for two members with a non-zero
\* intercept and a weight different from 1/n.
C1_Witness ==
    /\ temp = "vi-aw"
    /\ n = 2
    /\ ~REq(a, Rat(0))
    /\ ~REq(w, <<1, n>>)

\* C2 as stated: in vi-w and vi-aw the weights applied to the members sum
\* to 1.
C2_WeightsSumToOne ==
    (ViComputed /\ temp \in {"vi-w", "vi-aw"}) => REq(WeightSum, Rat(1))

\* C2 amended: in vi-w and vi-aw every member gets the weight 1/n + 0.15, so
\* the weights sum to 1 + 0.15 n (1.3 for n = 2); the weights sum to 1 only
\* in the fixed-weight approaches vi and vi-a.
C2_WeightsSumAmended ==
    ViComputed =>
        /\ (temp \in {"vi-w", "vi-aw"} =>
              /\ REq(WeightSum, RAdd(Rat(1), RMul(Rat(n), w_excess)))
              /\ ~REq(WeightSum, Rat(1)))
        /\ (temp \in {"vi", "vi-a"} => REq(WeightSum, Rat(1)))

\* C2 witness: vi-w computed for n = 2 with weights summing to 1.3.
C2_Witness ==
    /\ temp = "vi-w"
    /\ n = 2
    /\ REq(WeightSum, <<13, 10>>)

\* the Linear Pool columns have been computed
LpComputed == agg_pc \in {"vi", "plot"}

\* the smallest / largest member probability at grid point i
MinP(i) ==
    CHOOSE x \in {df_plot.p[MemberLabels[k]][i] : k \in 1 .. n} :
        \A k \in 1 .. n : RLe(x, df_plot.p[MemberLabels[k]][i])

MaxP(i) ==
    CHOOSE x \in {df_plot.p[MemberLabels[k]][i] : k \in 1 .. n} :
        \A k \in 1 .. n : RLe(df_plot.p[MemberLabels[k]][i], x)

\* C4: at every grid point the Linear Pool probability (density) is the
\* equal-weight mean of the members' probabilities (densities); the grid y is
\* left as it is, the result does not depend on a or w, and the probability
\* lies between the smallest and the largest member probability.
C4_LinearPoolAveragesProbabilities ==
    LpComputed =>
        /\ df_plot.y = linspace(lower, upper, n_plot)
        /\ \A i \in 1 .. n_plot :
              /\ REq(RMul(Rat(n), df_plot.p["lp"][i]),
                     RSum([k \in 1 .. n |-> df_plot.p[MemberLabels[k]][i]]))
              /\ REq(RMul(Rat(n), df_plot.d["lp"][i]),
                     RSum([k \in 1 .. n |-> df_plot.d[MemberLabels[k]][i]]))
              /\ RLe(MinP(i), df_plot.p["lp"][i])
              /\ RLe(df_plot.p["lp"][i], MaxP(i))

\* C4 witness: the Linear Pool of two members whose probabilities differ at a
\* grid point, where the pooled probability lies strictly between them, and
\* the pooled probabilities are not the quantile average (vi) of the members.
C4_Witness ==
    /\ n = 2
    /\ temp = "vi"
    /\ \E i \in 1 .. n_plot :
          /\ RLt(MinP(i), df_plot.p["lp"][i])
          /\ RLt(df_plot.p["lp"][i], MaxP(i))
    /\ df_plot.p["lp"] # df_plot.p["vi"]

\* C5: unweighted Vincentization of N(7,1) and N(10,1) has a = 0, w = 0.5,
\* mean 8.5 and standard deviation 1.0.
C5_ExampleVincentization ==
    (temp = "vi" /\ n = 2 /\ mu = <<7, 10>> /\ sd = <<1, 1>>) =>
        /\ REq(a, Rat(0))
        /\ REq(w, <<1, 2>>)
        /\ REq(mu_vi, <<17, 2>>)
        /\ REq(sd_vi, Rat(1))
        /\ df_plot.p["vi"] =
              [i \in 1 .. n_plot |-> norm_cdf(df_plot.y[i], <<17, 2>>, Rat(1))]

\* C5 witness: vi has been computed for N(7,1) and N(10,1).
C5_Witness ==
    /\ temp = "vi"
    /\ mu = <<7, 10>>
    /\ sd = <<1, 1>>
    /\ REq(mu_vi, <<17, 2>>)
    /\ REq(sd_vi, Rat(1))

(***************************************************************************)
(* Floating-point values: a rational, or NaN / +inf / -inf (encoded with a *)
(* zero denominator).  Operations follow IEEE 754 as numpy applies it:     *)
(* a division by zero does not raise, it yields inf or NaN.                *)
(***************************************************************************)
FNaN == <<0, 0>>

FInf == <<1, 0>>

FNegInf == <<-1, 0>>

FFinite(x) == x[2] # 0

FSign(x) == IF x[1] > 0 THEN 1 ELSE IF x[1] < 0 THEN -1 ELSE 0

FNeg(x) == <<-x[1], x[2]>>

FSub(x, y) ==
    IF x = FNaN \/ y = FNaN THEN FNaN
    ELSE IF FFinite(x) /\ FFinite(y) THEN RSub(x, y)
    ELSE IF FFinite(x) THEN FNeg(y)
    ELSE IF FFinite(y) THEN x
    ELSE IF x = y THEN FNaN ELSE x

FMul(x, y) ==
    IF x = FNaN \/ y = FNaN THEN FNaN
    ELSE IF FFinite(x) /\ FFinite(y) THEN RMul(x, y)
    ELSE IF FSign(x) * FSign(y) = 0 THEN FNaN
    ELSE <<FSign(x) * FSign(y), 0>>

FDiv(x, y) ==
    IF x = FNaN \/ y = FNaN THEN FNaN
    ELSE IF FFinite(x) /\ FFinite(y)
        THEN IF y[1] = 0
                THEN (IF x[1] = 0 THEN FNaN ELSE <<FSign(x), 0>>)
                ELSE Norm(FSign(y) * x[1] * y[2], x[2] * Abs(y[1]))
    ELSE IF FFinite(x) THEN Rat(0)
    ELSE IF FFinite(y) THEN <<FSign(x) * (IF y[1] < 0 THEN -1 ELSE 1), 0>>
    ELSE FNaN

\* x >= y as numpy / pandas compare floats (False whenever NaN is involved)
FGe(x, y) ==
    IF x = FNaN \/ y = FNaN THEN FALSE
    ELSE IF FFinite(x) /\ FFinite(y) THEN RLe(y, x)
    ELSE IF FFinite(x) THEN y = FNegInf
    ELSE IF FFinite(y) THEN x = FInf
    ELSE x = FInf \/ y = FNegInf

\* x < y (False whenever NaN is involved)
FLt(x, y) == x # FNaN /\ y # FNaN /\ ~FGe(x, y)

FAdd(x, y) == FSub(x, FNeg(y))

\* the sum of a sequence of floats, left to right
RECURSIVE FSum(_)
FSum(xs) ==
    IF xs = <<>> THEN <<0, 1>>
    ELSE FAdd(FSum(SubSeq(xs, 1, Len(xs) - 1)), xs[Len(xs)])

RECURSIVE Concat(_)
Concat(ss) == IF ss = <<>> THEN <<>> ELSE ss[1] \o Concat(Tail(ss))

\* Series.mean(): the mean of the values that are not NaN, NaN if there are none
SeriesMean(xs) ==
    LET ok == SelectSeq(xs, LAMBDA x : x # FNaN)
    IN  IF ok = <<>> THEN FNaN ELSE RDivPos(RSum(ok), Rat(Len(ok)))

\* the elements of a sequence
SeqElems(xs) == {xs[j] : j \in 1 .. Len(xs)}

\* df[col] of a data frame given as a sequence of rows
Column(df, col) == [i \in 1 .. Len(df) |-> df[i][col]]

(***************************************************************************)
(* get_panel_data (results.py, lines 8-139).                               *)
(***************************************************************************)
\* the arguments the model passes to get_panel_data
dataset_ls == <<"scen_1", "boston">>

score_vec == <<"crps", "crpss", "a", "w">>

nn_vec == <<"drn", "bqn">>

n_ens_vec == <<2, 4>>

agg_meths == <<"lp", "vi-aw">>

ens_method_ls == <<"rand_init", "bagging">>

\* dataset.startswith("scen")
StartsWithScen(dataset) == dataset \in {"scen_1", "scen_4"}

\* temp_out (lines 60-64)
TempOut(temp_sr) == IF temp_sr = "crpss" THEN "crps" ELSE temp_sr

\* s_opt (lines 66-69)
SOpt(df_sc, optimal_scores_available, temp_sr) ==
    IF optimal_scores_available /\ temp_sr \notin {"a", "w"}
        THEN SeriesMean(Column(SelectSeq(df_sc, LAMBDA r : r.type = "ref"),
                               TempOut(temp_sr)))
        ELSE Rat(0)

\* s_ref: average score of the ensemble members (lines 98-102)
SRefBug(df_nn, i_ens, temp_sr) ==
    SeriesMean(Column(SelectSeq(df_nn, LAMBDA r : r.type = "ind"),
                      TempOut(temp_sr)))

SRef(df_nn, i_ens, temp_sr) ==
    SeriesMean(Column(SelectSeq(df_nn,
                          LAMBDA r : r.n_rep <= i_ens /\ r.type = "ind"),
                      TempOut(temp_sr)))

\* the skill 100 * (s_ref - score) / (s_ref - s_opt) (lines 119-123)
Skill(s_ref, score, s_opt) ==
    FDiv(FMul(Rat(100), FSub(s_ref, score)), FSub(s_ref, s_opt))

\* new_row["score"] (lines 104-129)
RowScore(df_nn, s_opt, temp_sr, i_ens, temp_agg) ==
    LET s_ref == SRef(df_nn, i_ens, temp_sr)
        read  == SeriesMean(Column(SelectSeq(df_nn,
                     LAMBDA r : r.n_ens = i_ens /\ r.type = temp_agg),
                     TempOut(temp_sr)))
    IN  IF temp_agg = "ens" THEN s_ref
        ELSE IF temp_agg = "opt" THEN s_opt
        ELSE IF temp_sr = "crpss" THEN Skill(s_ref, read, s_opt)
        ELSE IF temp_sr = "w"
            THEN FMul(Rat(100), FSub(FMul(Rat(i_ens), read), Rat(1)))
        ELSE read

\* a loop that skips the rows of the skill only
SkippedForSkillOnly(temp_sr, temp_agg) ==
    \/ temp_sr = "crpss" /\ temp_agg = "ens"
    \/ temp_sr = "crpss" /\ temp_agg = "opt"

\* the combinations the loop skips (lines 79-87)
Skipped(temp_sr, temp_agg) ==
    \/ temp_sr = "crpss" /\ temp_agg = "ens"
    \/ temp_sr = "crpss" /\ temp_agg = "opt"
    \/ temp_sr = "a" /\ temp_agg = "opt"
    \/ temp_sr = "w" /\ temp_agg = "opt"

\* the rows of one dataset or scenario (lines 56-137; figures.py 279-360)
PanelRows(df_sc, optimal_scores_available, key, scores, nns, sizes, aggs) ==
    Concat([s \in 1 .. Len(scores) |->
      LET temp_sr == scores[s]
          s_opt   == SOpt(df_sc, optimal_scores_available, temp_sr)
      IN  Concat([k \in 1 .. Len(nns) |->
        LET temp_nn == nns[k]
            df_nn   == SelectSeq(df_sc, LAMBDA r : r.nn = temp_nn)
        IN  Concat([e \in 1 .. Len(sizes) |->
          Concat([g \in 1 .. Len(aggs) + 2 |->
            LET i_ens    == sizes[e]
                temp_agg == (<<"opt", "ens">> \o aggs)[g]
            IN  IF Skipped(temp_sr, temp_agg) THEN <<>>
                ELSE <<key @@ [nn |-> temp_nn, metric |-> temp_sr,
                               n_ens |-> i_ens, agg |-> temp_agg,
                               score |-> RowScore(df_nn, s_opt, temp_sr,
                                                  i_ens, temp_agg)]>>])])])])

\* get_panel_data(data_path, datasets, scores, nns, sizes, aggs, ens_method)
get_panel_data(datasets, scores, nns, sizes, aggs, ens_method) ==
    Concat([i \in 1 .. Len(datasets) |->
        LET dataset   == datasets[i]
            df_scores == eval_files[<<dataset, ens_method>>]
            df_sc     == SelectSeq(df_scores, LAMBDA r : r.model = dataset)
        IN  PanelRows(df_sc, StartsWithScen(dataset), [dataset |-> dataset],
                      scores, nns, sizes, aggs)])

(***************************************************************************)
(* plot_panel_model (figures.py, lines 262-369).                           *)
(***************************************************************************)
\* line 25: the models considered, scenario_vec = [1, 4]
scenario_vec == <<1, 4>>

\* line 31: the ensemble sizes, n_ens_vec = np.arange(2, 12, 2)
plot_n_ens_vec == <<2, 4, 6, 8, 10>>

\* line 64: agg_meths = list(agg_names.keys())
plot_agg_meths == <<"lp", "vi", "vi-a", "vi-w", "vi-aw">>

\* line 67: the methods with coefficient estimation
coeff_meths == {"vi-a", "vi-w", "vi-aw"}

\* line 270: the scores and quantities plot_panel_model loops over
plot_score_vec == <<"crps", "crpss", "me", "lgt", "cov", "a", "w">>

\* df_plot of one scenario after the loops (lines 274-360); nn_vec of line 45
\* is the list ["drn", "bqn"]
PlotPanelRows(df_scores, i_scenario) ==
    LET df_sc == SelectSeq(df_scores, LAMBDA r : r.model = i_scenario)
    IN  PanelRows(df_sc, TRUE, <<>>, plot_score_vec, nn_vec, plot_n_ens_vec,
                  plot_agg_meths)

\* lines 363-366: remove CRPSS smaller than -5%
PlotPanelKept(rows) ==
    SelectSeq(rows, LAMBDA r : r.metric # "crpss" \/ FGe(r.score, Rat(-5)))

\* str.upper() of the names of the network variants
StrUpper == [drn |-> "DRN", bqn |-> "BQN"]

\* line 369: df_plot["nn"] = df_plot["nn"].str.upper()
PlotPanelRenamed(rows) ==
    [j \in 1 .. Len(rows) |-> [rows[j] EXCEPT !.nn = StrUpper[@]]]

(***************************************************************************)
(* The score tables the functions are run on.                              *)
(***************************************************************************)
\* a row of a score table: the bias me, the length lgt and the coverage cov
\* of the prediction interval are set from the CRPS of the row
ScoreRow(d, k, t, e, r, c, ai, wi) ==
    [model |-> d, nn |-> k, type |-> t, n_ens |-> e, n_rep |-> r,
     crps |-> c, me |-> RSub(c, Rat(3)), lgt |-> RMul(Rat(2), c),
     cov |-> RDivPos(Rat(9), RAdd(c, Rat(9))), a |-> ai, w |-> wi]

\* a table: the reference forecasts, the ensemble members of each network,
\* and two aggregated forecasts per network, method and size; the CRPS of
\* the first falls by step from one size to the next
ScoreTableOf(d, refs, inds, base, aggs, sizes, step) ==
    [i \in 1 .. Len(refs) |->
        ScoreRow(d, "ref", "ref", 0, 0, Rat(refs[i]), FNaN, FNaN)]
    \o Concat([k \in 1 .. Len(nn_vec) |->
        [r \in 1 .. Len(inds) |->
            ScoreRow(d, nn_vec[k], "ind", 0, r, Rat(inds[r] + k - 1),
                     FNaN, FNaN)]])
    \o Concat([k \in 1 .. Len(nn_vec) |->
        Concat([g \in 1 .. Len(aggs) |->
            Concat([e \in 1 .. Len(sizes) |->
                LET est == aggs[g] \in coeff_meths
                IN  <<ScoreRow(d, nn_vec[k], aggs[g], sizes[e], 0,
                               RSub(Rat(base + k + g), RMul(Rat(e), step)),
                               IF est THEN <<-1, 2>> ELSE FNaN,
                               IF est THEN <<13, 20>> ELSE FNaN),
                      ScoreRow(d, nn_vec[k], aggs[g], sizes[e], 0,
                               Rat(base + g),
                               IF est THEN <<1, 4>> ELSE FNaN,
                               IF est THEN <<1, 2>> ELSE FNaN)>>])])])

\* a table of a file eval_{dataset}_{ens_method}.pkl
ScoreTable(d, refs, inds, base) ==
    ScoreTableOf(d, refs, inds, base, agg_meths, n_ens_vec, Rat(1))

\* the tables a file may hold: scores with s_ref different from s_opt, with
\* s_ref equal to s_opt, without reference forecasts, and with member scores
\* that differ from member to member
ScoreTables(d) ==
    { ScoreTable(d, <<1, 1>>, <<4, 4, 4, 4>>, 2),
      ScoreTable(d, <<3, 3>>, <<3, 3, 3, 3>>, 2),
      ScoreTable(d, <<>>, <<4, 4, 4, 4>>, 3),
      ScoreTable(d, <<2>>, <<3, 5, 4, 6>>, 3) }

\* a table of eval_ss.pkl: the rows of every scenario, the column model
\* holding the number of the scenario, with ten members per network
SsTable(refs, ind) ==
    Concat([i \in 1 .. Len(scenario_vec) |->
        ScoreTableOf(scenario_vec[i], refs, [r \in 1 .. 10 |-> ind], i + 1,
                     plot_agg_meths, plot_n_ens_vec, <<1, 4>>)])

\* the tables eval_ss.pkl may hold: scores with s_ref different from s_opt
\* and with s_ref equal to s_opt
SsTables == { SsTable(<<1, 1>>, 4), SsTable(<<3, 3>>, 3) }

FileKeys == {<<dataset_ls[i], ens_method_ls[j]>> :
                i \in 1 .. Len(dataset_ls), j \in 1 .. Len(ens_method_ls)}

\* the file of plot_panel_model (figures.py, line 263)
eval_ss == "eval_ss.pkl"

PanelInit ==
    /\ AggIdle
    /\ ResIdle
    /\ EnsIdle
    /\ RunIdle
    /\ ReadIdle
    /\ SkillIdle
    /\ \E files \in {f \in [FileKeys -> UNION {ScoreTables(dataset_ls[i]) :
                                            i \in 1 .. Len(dataset_ls)}] :
                        \A key \in FileKeys : f[key] \in ScoreTables(key[1])},
          ss \in SsTables :
            eval_files = (<<eval_ss>> :> ss) @@ files
    /\ NothingComputed

\* a call of get_panel_data for one ensemble method
GetPanelData ==
    /\ \E ens_method \in {ens_method_ls[j] : j \in 1 .. Len(ens_method_ls)} :
        /\ panel' = get_panel_data(dataset_ls, score_vec, nn_vec, n_ens_vec,
                                   agg_meths, ens_method)
        /\ panel_call' = ens_method
    /\ UNCHANGED <<skillVars, readVars, runVars, aggVars, resVars, ensVars, eval_files, plot_panel, plot_call, best>>

\* a call of plot_panel_model: df_plot of every scenario after the loops
\* (line 360), after the removal (line 366) and after the renaming (line 369)
PlotPanelModel ==
    /\ plot_panel' =
        [i \in 1 .. Len(scenario_vec) |->
            LET rows == PlotPanelRows(eval_files[<<eval_ss>>], scenario_vec[i])
            IN  [computed |-> rows,
                 kept     |-> PlotPanelKept(rows),
                 renamed  |-> PlotPanelRenamed(PlotPanelKept(rows))]]
    /\ plot_call' = eval_ss
    /\ UNCHANGED <<skillVars, readVars, runVars, aggVars, resVars, ensVars, eval_files, panel, panel_call, best>>

PanelNext == GetPanelData \/ PlotPanelModel

SpecPanel == PanelInit /\ [][PanelNext]_vars

(***************************************************************************)
(* Claims about get_panel_data and plot_panel_model, checked under         *)
(* SpecPanel.                                                              *)
(***************************************************************************)
SeqToSet(xs) == {xs[i] : i \in 1 .. Len(xs)}

\* the table a call read: plot_panel_model reads eval_ss.pkl, get_panel_data
\* the file of the dataset and the ensemble method m
EvalTable(d, m) ==
    IF m = eval_ss THEN eval_files[<<eval_ss>>] ELSE eval_files[<<d, m>>]

\* the records of a dataset in the table a call read
RecordsOf(dataset, ens_method) ==
    LET f == EvalTable(dataset, ens_method)
    IN  {i \in 1 .. Len(f) : f[i].model = dataset}

RECURSIVE SumCrps(_, _)
SumCrps(f, idx) ==
    IF idx = {} THEN Rat(0)
    ELSE LET i == CHOOSE j \in idx : TRUE
         IN  RAdd(f[i].crps, SumCrps(f, idx \ {i}))

\* the mean CRPS of the records idx of table f (NaN when there is none)
MeanCrps(f, idx) ==
    IF idx = {} THEN FNaN ELSE RDivPos(SumCrps(f, idx), Rat(Cardinality(idx)))

\* s: the mean CRPS of the records of method g at ensemble size e
CandidateCrps(d, m, k, e, g) ==
    LET f == EvalTable(d, m)
    IN  MeanCrps(f, {i \in RecordsOf(d, m) :
                        f[i].nn = k /\ f[i].type = g /\ f[i].n_ens = e})

\* s_ref: the mean CRPS of the 'ind' records with n_rep <= e
ReferenceCrps(d, m, k, e) ==
    LET f == EvalTable(d, m)
    IN  MeanCrps(f, {i \in RecordsOf(d, m) :
                        f[i].nn = k /\ f[i].type = "ind" /\ f[i].n_rep <= e})

\* s_opt: the mean CRPS of the 'ref' records of the dataset
OptimalCrps(d, m) ==
    LET f == EvalTable(d, m)
    IN  MeanCrps(f, {i \in RecordsOf(d, m) : f[i].type = "ref"})

\* 100 * (s_ref - s) / (s_ref - s_opt)
Crpss(s, s_ref, s_opt) ==
    FDiv(FMul(Rat(100), FSub(s_ref, s)), FSub(s_ref, s_opt))

\* the scores get_panel_data reported for a cell
PanelScores(d, k, metric, e, g) ==
    {panel[i].score : i \in {j \in 1 .. Len(panel) :
        /\ panel[j].dataset = d
        /\ panel[j].nn = k
        /\ panel[j].metric = metric
        /\ panel[j].n_ens = e
        /\ panel[j].agg = g}}

\* the scores plot_panel_model computed for a cell of scenario number i
PlotScores(i, k, metric, e, g) ==
    {plot_panel[i].computed[j].score : j \in
        {j \in 1 .. Len(plot_panel[i].computed) :
            /\ plot_panel[i].computed[j].nn = k
            /\ plot_panel[i].computed[j].metric = metric
            /\ plot_panel[i].computed[j].n_ens = e
            /\ plot_panel[i].computed[j].agg = g}}

\* the cells (dataset, network, ensemble size, aggregation method)
SkillCells ==
    SeqToSet(dataset_ls) \X SeqToSet(nn_vec) \X SeqToSet(n_ens_vec)
        \X SeqToSet(agg_meths)

\* the cells (scenario number, network, ensemble size, aggregation method)
\* of plot_panel_model
PlotCells ==
    (1 .. Len(scenario_vec)) \X SeqToSet(nn_vec) \X SeqToSet(plot_n_ens_vec)
        \X SeqToSet(plot_agg_meths)

\* C6 as stated: every reported CRPSS is 100 * (s_ref - s) / (s_ref - s_opt)
\* with s_opt the mean CRPS of the 'ref' records of the dataset, in the rows
\* of get_panel_data and in the rows of plot_panel_model.
C6_CrpssFromReferenceMean ==
    /\ panel_call # "" =>
        \A c \in SkillCells :
            PanelScores(c[1], c[2], "crpss", c[3], c[4]) =
                {Crpss(CandidateCrps(c[1], panel_call, c[2], c[3], c[4]),
                       ReferenceCrps(c[1], panel_call, c[2], c[3]),
                       OptimalCrps(c[1], panel_call))}
    /\ plot_call # "" =>
        \A c \in PlotCells :
            PlotScores(c[1], c[2], "crpss", c[3], c[4]) =
                {Crpss(CandidateCrps(scenario_vec[c[1]], plot_call, c[2],
                                     c[3], c[4]),
                       ReferenceCrps(scenario_vec[c[1]], plot_call, c[2], c[3]),
                       OptimalCrps(scenario_vec[c[1]], plot_call))}

\* C6: what the code does instead: for a dataset whose name does not start
\* with "scen" and whose file holds 'ref' records, get_panel_data reports the
\* finite skill computed with s_opt = 0, which is not the skill computed with
\* the mean CRPS of the 'ref' records.
C6_Witness ==
    /\ panel_call # ""
    /\ \E c \in SkillCells :
        /\ ~StartsWithScen(c[1])
        /\ OptimalCrps(c[1], panel_call) # FNaN
        /\ \E x \in PanelScores(c[1], c[2], "crpss", c[3], c[4]) :
              /\ FFinite(x)
              /\ x[1] # 0
              /\ x = Crpss(CandidateCrps(c[1], panel_call, c[2], c[3], c[4]),
                           ReferenceCrps(c[1], panel_call, c[2], c[3]), Rat(0))
              /\ x # Crpss(CandidateCrps(c[1], panel_call, c[2], c[3], c[4]),
                           ReferenceCrps(c[1], panel_call, c[2], c[3]),
                           OptimalCrps(c[1], panel_call))

\* the reference score of a cell equals the optimal score used for it
ZeroDenominator(d, m, k, e, scen) ==
    LET s_ref == ReferenceCrps(d, m, k, e)
        s_opt == IF scen THEN OptimalCrps(d, m) ELSE Rat(0)
    IN  s_ref # FNaN /\ s_opt # FNaN /\ REq(s_ref, s_opt)

\* C7 as stated: when s_ref equals s_opt the computation of the CRPSS fails
\* and no value is stored, so neither panel ever holds a CRPSS for a cell with
\* s_ref = s_opt.
C7_ZeroDenominatorStoresNothing ==
    /\ panel_call # "" =>
        \A c \in SkillCells :
            ZeroDenominator(c[1], panel_call, c[2], c[3],
                            StartsWithScen(c[1])) =>
                PanelScores(c[1], c[2], "crpss", c[3], c[4]) = {}
    /\ plot_call # "" =>
        \A c \in PlotCells :
            ZeroDenominator(scenario_vec[c[1]], plot_call, c[2], c[3], TRUE) =>
                PlotScores(c[1], c[2], "crpss", c[3], c[4]) = {}

\* C7: what the code does instead: with s_ref = s_opt the division is carried
\* out and the panel holds inf, -inf or NaN for the cell.
C7_Witness ==
    /\ panel_call # ""
    /\ \E c \in SkillCells :
        /\ ZeroDenominator(c[1], panel_call, c[2], c[3], StartsWithScen(c[1]))
        /\ PanelScores(c[1], c[2], "crpss", c[3], c[4]) \subseteq
              {FInf, FNegInf, FNaN}
        /\ PanelScores(c[1], c[2], "crpss", c[3], c[4]) # {}

(***************************************************************************)
(* BQNBaseModel: __init__, predict and get_results (BQNModels.py).         *)
(* The network is a source of raw outputs: one value alpha_0 and p_degree  *)
(* non-negative increments per instance, as floats (a weight that is NaN   *)
(* or an overflow makes an output NaN or inf).  bern_quants, fn_scores_ens *)
(* (module fn_eval) are modelled from their description: the Bernstein     *)
(* polynomial of the coefficients at the quantile levels, and the sample   *)
(* CRPS and rank of the observation among the quantiles.                   *)
(***************************************************************************)
RECURSIVE Binom(_, _)
Binom(m, j) ==
    IF j = 0 \/ j = m THEN 1 ELSE Binom(m - 1, j - 1) + Binom(m - 1, j)

RECURSIVE RPow(_, _)
RPow(x, e) == IF e = 0 THEN Rat(1) ELSE RMul(x, RPow(x, e - 1))

RAbs(x) == <<Abs(x[1]), x[2]>>

\* ss.binom.pmf(j, n = p, p = t): the Bernstein basis polynomial (lines 66-76)
BernBasis(j, p, t) ==
    RMul(Rat(Binom(p, j)), RMul(RPow(t, j), RPow(RSub(Rat(1), t), p - j)))

\* the increments accumulated from the last entry backwards
CumSumReversed(row) ==
    [j \in 1 .. Len(row) |-> FSum(SubSeq(row, j, Len(row)))]

\* np.cumsum(row): the accumulated increments (line 206)
CumSum(row) == [j \in 1 .. Len(row) |-> FSum(SubSeq(row, 1, j))]

\* bern_quants(alpha, q_levels) for one instance: sum of basis times
\* coefficients at every level
bern_quants(alpha, q_levels) ==
    [l \in 1 .. Len(q_levels) |->
        FSum([j \in 1 .. Len(alpha) |->
            FMul(alpha[j], BernBasis(j - 1, Len(alpha) - 1, q_levels[l]))])]

\* the sample CRPS of the quantiles ens for the observation y:
\* mean |x_i - y| - 1/(2 m^2) sum_i sum_j |x_i - x_j|
crps_sample(ens, y) ==
    LET m == Len(ens)
    IN  FSub(FDiv(FSum([i \in 1 .. m |-> RAbs(FSub(ens[i], y))]), Rat(m)),
             FDiv(FSum([i \in 1 .. m |->
                      FSum([j \in 1 .. m |-> RAbs(FSub(ens[i], ens[j]))])]),
                  Rat(2 * m * m)))

\* the rank of the observation among the quantiles: in 0 .. len(ens)
ens_rank(ens, y) == Cardinality({i \in 1 .. Len(ens) : FLt(ens[i], y)})

\* fn_scores_ens(ens, y, ...) for one instance
fn_scores_ens(ens, y) ==
    [crps |-> crps_sample(ens, y), rank |-> ens_rank(ens, y)]

\* np.ceil(x / y) for integers x >= 0, y > 0
CeilDiv(x, y) == (x + y - 1) \div y

\* a rescaling that rounds down
RankRescaleFloor(rank, n_ens, n_members) ==
    IF n_members # n_ens
        THEN (rank * (n_ens + 1)) \div (n_members + 1)
        ELSE rank

\* lines 221-225: ranks transformed to n_ens + 1 bins
RankRescaleNone(rank, n_ens, n_members) == rank

RankRescaleMod(rank, n_ens, n_members) ==
    IF n_members # n_ens
        THEN (rank * (n_ens + 1)) % (n_members + 1)
        ELSE rank

RankRescale(rank, n_ens, n_members) ==
    IF n_members # n_ens
        THEN CeilDiv(rank * (n_ens + 1), n_members + 1)
        ELSE rank

\* get_results(y) (lines 204-242), instance by instance
get_results(y) ==
    LET coeff_bern == [i \in 1 .. Len(self_coeff_bern) |->
                          CumSum(self_coeff_bern[i])]
        q      == [i \in 1 .. Len(coeff_bern) |->
                      bern_quants(coeff_bern[i], self_q_levels)]
        scores == [i \in 1 .. Len(q) |-> fn_scores_ens(q[i], Rat(y[i]))]
    IN  [f |-> q,
         alpha |-> coeff_bern,
         scores |->
            [crps |-> [i \in 1 .. Len(q) |-> scores[i].crps],
             rank |-> [i \in 1 .. Len(q) |->
                          RankRescale(scores[i].rank, self_n_ens,
                                      Len(self_q_levels))],
             e_me |-> [i \in 1 .. Len(q) |->
                          FSub(FDiv(FSum(coeff_bern[i]),
                                    Rat(Len(coeff_bern[i]))),
                               Rat(y[i]))]],
         n_test |-> Len(self_coeff_bern)]

\* the grids of quantile levels a model is constructed with: k equidistant
\* levels 1/(k+1), ..., k/(k+1)
LevelGrid(k) == [l \in 1 .. k |-> <<l, k + 1>>]

\* np.arange(start, stop, step): ceil((stop - start) / step) values
\* start + i * step
arange(start, stop, step) ==
    LET d   == RDivPos(RSub(stop, start), step)
        len == CeilDiv(d[1], d[2])
    IN  [i \in 1 .. len |-> RAdd(start, RMul(Rat(i - 1), step))]

\* lines 35-37: the grid used when q_levels is None
DefaultLevels ==
    LET step == <<1, DefaultSteps>>
    IN  arange(<<1, DefaultSteps>>, RAdd(Rat(1), step), step)

\* the raw outputs of the network for one instance
Alpha0Set == {-1, 0, 1}

IncrementSet == {0, 1}

FiniteRows ==
    {<<Rat(a0)>> \o [j \in 1 .. p_degree |-> Rat(inc[j])] :
        a0 \in Alpha0Set, inc \in [1 .. p_degree -> IncrementSet]}

\* outputs with a non-finite entry: alpha_0 NaN, or the first increment inf
NonFiniteRows ==
    { <<FNaN>> \o [j \in 1 .. p_degree |-> Rat(0)],
      <<Rat(0), FInf>> \o [j \in 1 .. p_degree - 1 |-> Rat(1)] }

NetRows == FiniteRows \cup NonFiniteRows

\* the sizes of the test set
TestSizes == {1}

\* the observations
YSet == {-1, 0, 1, 2, 5}

\* __init__ (lines 20-56)
ResInit ==
    /\ AggIdle
    /\ PanelIdle
    /\ EnsIdle
    /\ RunIdle
    /\ ReadIdle
    /\ SkillIdle
    /\ self_n_ens \in 1 .. MaxEns
    /\ self_q_levels \in {LevelGrid(k) : k \in 1 .. MaxLevels}
                            \cup {DefaultLevels}
    /\ self_coeff_bern = <<>>
    /\ y_test = <<>>
    /\ results = <<>>

\* predict (lines 186-202)
Predict ==
    /\ \E t \in TestSizes : \E out \in [1 .. t -> NetRows] :
          self_coeff_bern' = out
    /\ UNCHANGED <<skillVars, readVars, runVars, aggVars, panelVars, ensVars, self_n_ens, self_q_levels, y_test,
                   results>>

\* a get_results that accumulates the stored network output in place
GetResultsInPlace ==
    /\ self_coeff_bern # <<>>
    /\ \E y \in [1 .. Len(self_coeff_bern) -> YSet] :
        /\ y_test' = y
        /\ results' = get_results(y)
    /\ self_coeff_bern' = [i \in 1 .. Len(self_coeff_bern) |->
                              CumSum(self_coeff_bern[i])]
    /\ UNCHANGED <<skillVars, readVars, runVars, aggVars, panelVars, ensVars,
                   self_n_ens, self_q_levels>>

\* get_results (lines 204-242)
GetResults ==
    /\ self_coeff_bern # <<>>
    /\ \E y \in [1 .. Len(self_coeff_bern) -> YSet] :
        /\ y_test' = y
        /\ results' = get_results(y)
    /\ UNCHANGED <<skillVars, readVars, runVars, aggVars, panelVars, ensVars, self_n_ens, self_q_levels,
                   self_coeff_bern>>

ResNext == Predict \/ GetResults

SpecRes == ResInit /\ [][ResNext]_vars

(***************************************************************************)
(* Claims about get_results, checked under SpecRes.                        *)
(***************************************************************************)
HasResults == results # <<>>

\* every entry of a row is a finite number
AllFinite(row) == \A j \in 1 .. Len(row) : FFinite(row[j])

n_members == Len(self_q_levels)

\* C9: the rank rescaling preserves the order of the raw ranks: for raw ranks
\* r1 < r2 in [0, n_members] the rescaled rank of r1 is at most that of r2.
C9_RescalingPreservesOrder ==
    self_n_ens > 0 =>
        \A r1, r2 \in 0 .. n_members :
            r1 < r2 => RankRescale(r1, self_n_ens, n_members)
                          <= RankRescale(r2, self_n_ens, n_members)

\* C9 witness: get_results returned a rescaled rank that differs from the raw
\* rank, for a number of levels different from n_ens.
C9_Witness ==
    /\ HasResults
    /\ n_members # self_n_ens
    /\ results.scores.rank[1] # ens_rank(results.f[1], Rat(y_test[1]))
    /\ results.scores.rank[1] =
          RankRescale(ens_rank(results.f[1], Rat(y_test[1])), self_n_ens,
                      n_members)

\* C10 as stated: every rank that get_results returns lies in [0, n_ens].
C10_RankWithinEnsembleSize ==
    HasResults =>
        \A i \in 1 .. results.n_test :
            results.scores.rank[i] \in 0 .. self_n_ens

\* C10 amended: every rank that get_results returns is an integer in
\* [0, n_ens + 1]; with more levels than n_ens the raw rank n_members (the
\* observation above every quantile) is rescaled to n_ens + 1.
C10_RankWithinBins ==
    HasResults =>
        \A i \in 1 .. results.n_test :
            /\ results.scores.rank[i] \in 0 .. self_n_ens + 1
            /\ (n_members > self_n_ens /\
                ens_rank(results.f[i], Rat(y_test[i])) = n_members) =>
                    results.scores.rank[i] = self_n_ens + 1

\* C10 witness: a returned rank of n_ens + 1 for more levels than n_ens.
C10_Witness ==
    /\ HasResults
    /\ n_members > self_n_ens
    /\ results.scores.rank[1] = self_n_ens + 1

\* C11: for every network output with finite entries (an arbitrary first
\* entry, then non-negative increments) the accumulated coefficients that
\* get_results returns are non-decreasing, and so are the quantiles along
\* the increasing grid of levels: no two quantiles cross.
C11_MonotoneByConstruction ==
    HasResults =>
        \A i \in 1 .. results.n_test :
            AllFinite(results.alpha[i]) =>
                /\ Len(results.alpha[i]) = p_degree + 1
                /\ \A j \in 1 .. p_degree :
                      RLe(results.alpha[i][j], results.alpha[i][j + 1])
                /\ \A l1, l2 \in 1 .. n_members :
                      RLt(self_q_levels[l1], self_q_levels[l2]) =>
                          RLe(results.f[i][l1], results.f[i][l2])

\* C11 witness: a negative first entry and increments that are not all zero
\* gave strictly increasing quantiles.
C11_Witness ==
    /\ HasResults
    /\ AllFinite(results.alpha[1])
    /\ results.alpha[1][1] = Rat(-1)
    /\ n_members >= 2
    /\ \A l \in 1 .. n_members - 1 :
          RLt(results.f[1][l], results.f[1][l + 1])

\* C12 as stated: the quantile levels of a model are strictly increasing and
\* lie strictly inside (0,1); the default grid contains neither 0 nor 1.
C12_LevelsInsideUnitInterval ==
    self_q_levels # <<>> =>
        /\ \A l \in 1 .. n_members :
              /\ RLt(Rat(0), self_q_levels[l])
              /\ RLt(self_q_levels[l], Rat(1))
        /\ \A l \in 1 .. n_members - 1 :
              RLt(self_q_levels[l], self_q_levels[l + 1])

\* C12 witness: get_results returned quantiles for the default grid, whose
\* last level is 1.
C12_Witness ==
    /\ HasResults
    /\ self_q_levels = DefaultLevels
    /\ n_members = DefaultSteps
    /\ REq(self_q_levels[n_members], Rat(1))

\* C13 as stated: get_results fails when the coefficients of an instance hold
\* a non-finite value; it never returns quantiles or scores computed from
\* such coefficients.
C13_NonFiniteCoefficientsRejected ==
    HasResults =>
        \A i \in 1 .. results.n_test :
            /\ AllFinite(results.alpha[i])
            /\ AllFinite(results.f[i])
            /\ FFinite(results.scores.crps[i])

\* C13 witness: get_results returned NaN quantiles and a NaN score for
\* coefficients with a non-finite value.
C13_Witness ==
    /\ HasResults
    /\ ~AllFinite(results.alpha[1])
    /\ \E l \in 1 .. n_members : results.f[1][l] = FNaN
    /\ results.scores.crps[1] = FNaN

(***************************************************************************)
(* Claims about datasets without optimal scores, checked under SpecPanel.  *)
(***************************************************************************)
\* the rows of the panel that depend on the optimal score of their dataset
DependsOnOptimal(row) == row.agg = "opt" \/ row.metric = "crpss"

\* C14 as stated: for a dataset whose name does not start with "scen" every
\* panel row that depends on the optimal score (the 'opt' rows and the CRPSS
\* rows) carries the 'unavailable' sentinel (NaN) instead of a value derived
\* from an optimal score of zero.
C14_UnavailableOptimalScore ==
    \A j \in 1 .. Len(panel) :
        (~StartsWithScen(panel[j].dataset) /\ DependsOnOptimal(panel[j])) =>
            panel[j].score = FNaN

\* C14 witness: the panel of a dataset without optimal scores holds an 'opt'
\* row with score 0 and a finite CRPSS computed with s_opt = 0.
C14_Witness ==
    /\ panel_call # ""
    /\ \E j \in 1 .. Len(panel) :
          /\ panel[j].dataset = "boston"
          /\ panel[j].agg = "opt"
          /\ panel[j].metric = "crps"
          /\ panel[j].score = Rat(0)
    /\ \E k \in SeqToSet(nn_vec), e \in SeqToSet(n_ens_vec),
          g \in SeqToSet(agg_meths) :
          \E x \in PanelScores("boston", k, "crpss", e, g) :
              /\ FFinite(x)
              /\ x = Crpss(CandidateCrps("boston", panel_call, k, e, g),
                           ReferenceCrps("boston", panel_call, k, e), Rat(0))

(***************************************************************************)
(* get_best_result_table (results.py, lines 142-224).  The table of a      *)
(* network type is the set of its cells, one per dataset and ensemble      *)
(* method: the columns {method}, {method}_agg and {method}_n_ens of the    *)
(* row of the dataset.  None is the empty set.                             *)
(***************************************************************************)
\* lines 184-186: the rows of the aggregation methods with metric crps
BestFiltered(df, aggs) ==
    SelectSeq(df, LAMBDA r : r.agg \in {aggs[g] : g \in 1 .. Len(aggs)}
                             /\ r.metric = "crps")

\* line 196: any(df_nn["score"].isna())
AnyNaN(df_nn) == \E j \in 1 .. Len(df_nn) : df_nn[j].score = FNaN

\* line 200: idxmin of the group of a dataset, the first row with the
\* smallest score
IdxMin(df_nn, d) ==
    LET idx == {j \in 1 .. Len(df_nn) : df_nn[j].dataset = d}
    IN  CHOOSE j \in idx : \A i \in idx :
            /\ RLe(df_nn[j].score, df_nn[i].score)
            /\ REq(df_nn[i].score, df_nn[j].score) => j <= i

\* lines 199-210: the best row of every dataset for one ensemble method
BestRows(df_nn, ens_method) ==
    {LET r == df_nn[IdxMin(df_nn, d)]
     IN  [dataset |-> d, ens_method |-> ens_method, score |-> r.score,
          agg |-> r.agg, n_ens |-> r.n_ens] :
        d \in {df_nn[j].dataset : j \in 1 .. Len(df_nn)}}

\* lines 189-197: the network types the loop reaches for one ensemble
\* method; the break at the first type with a NaN score ends the loop
NnReached(df, nns) ==
    {k \in 1 .. Len(nns) :
        \A k2 \in 1 .. k :
            ~AnyNaN(SelectSeq(df, LAMBDA r : r.nn = nns[k2]))}

\* get_best_result_table(data_path, nn_vec, ens_method_ls, agg_meths,
\*                       dataset_ls, n_ens_vec)
get_best_result_table(nns, ens_methods, aggs, datasets, sizes) ==
    LET df(m) == BestFiltered(get_panel_data(datasets, score_vec, nns, sizes,
                                             aggs, ens_methods[m]), aggs)
        cells(nn) ==
            UNION {BestRows(SelectSeq(df(m), LAMBDA r : r.nn = nns[k]),
                            ens_methods[m]) :
                   <<m, k>> \in {x \in (1 .. Len(ens_methods)) \X (1 .. Len(nns)) :
                        /\ x[2] \in NnReached(df(x[1]), nns)
                        /\ IF nn = "drn" THEN nns[x[2]] = "drn"
                                         ELSE nns[x[2]] # "drn"}}
    IN  [drn_results |-> cells("drn"), bqn_results |-> cells("bqn")]

\* a score table without the rows of one cell (network k, method lp, size 4)
WithoutCell(table, k) ==
    SelectSeq(table, LAMBDA r : ~(r.nn = k /\ r.type = "lp" /\ r.n_ens = 4))

\* the tables a file may hold: complete ones, and ones that lack a cell
BestTables(d) ==
    { ScoreTable(d, <<1, 1>>, <<4, 4, 4, 4>>, 2),
      ScoreTable(d, <<2>>, <<3, 5, 4, 6>>, 3),
      WithoutCell(ScoreTable(d, <<1, 1>>, <<4, 4, 4, 4>>, 2), "drn"),
      WithoutCell(ScoreTable(d, <<1, 1>>, <<4, 4, 4, 4>>, 2), "bqn") }

BestInit ==
    /\ AggIdle
    /\ ResIdle
    /\ EnsIdle
    /\ RunIdle
    /\ ReadIdle
    /\ SkillIdle
    /\ eval_files \in {f \in [FileKeys -> UNION {BestTables(dataset_ls[i]) :
                                            i \in 1 .. Len(dataset_ls)}] :
                        \A key \in FileKeys : f[key] \in BestTables(key[1])}
    /\ NothingComputed

\* a call of get_best_result_table
GetBestResultTable ==
    /\ best' = get_best_result_table(nn_vec, ens_method_ls, agg_meths,
                                     dataset_ls, n_ens_vec)
    /\ UNCHANGED <<skillVars, readVars, runVars, aggVars, resVars, ensVars, eval_files, panel, panel_call,
                   plot_panel, plot_call>>

BestNext == GetBestResultTable

SpecBest == BestInit /\ [][BestNext]_vars

(***************************************************************************)
(* Claims about get_best_result_table, checked under SpecBest.             *)
(***************************************************************************)
\* the table of a network type
BestTable(k) == IF k = "drn" THEN best.drn_results ELSE best.bqn_results

\* the cells of the table of network k for ensemble method m and dataset d
BestCells(m, k, d) ==
    {c \in BestTable(k) : c.ens_method = m /\ c.dataset = d}

\* the mean CRPS of the (aggregation method, ensemble size) pairs of a
\* dataset, ensemble method and network that have one
CrpsCandidates(d, m, k) ==
    {x \in SeqToSet(agg_meths) \X SeqToSet(n_ens_vec) :
        CandidateCrps(d, m, k, x[2], x[1]) # FNaN}

\* C15 as stated: for every ensemble method, network type and dataset the
\* table reports exactly the minimum mean CRPS over the aggregation methods
\* of agg_meths and the ensemble sizes of n_ens_vec, with the aggregation
\* method and the ensemble size of that minimum.
C15_BestResultIsMinimum ==
    best # <<>> =>
        \A m \in SeqToSet(ens_method_ls), k \in SeqToSet(nn_vec),
           d \in SeqToSet(dataset_ls) :
            /\ Cardinality(BestCells(m, k, d)) = 1
            /\ \A c \in BestCells(m, k, d) :
                /\ <<c.agg, c.n_ens>> \in CrpsCandidates(d, m, k)
                /\ c.score = CandidateCrps(d, m, k, c.n_ens, c.agg)
                /\ \A x \in CrpsCandidates(d, m, k) :
                      RLe(c.score, CandidateCrps(d, m, k, x[2], x[1]))

\* every file holds rows for every cell
AllCellsScored ==
    \A m \in SeqToSet(ens_method_ls), k \in SeqToSet(nn_vec),
       d \in SeqToSet(dataset_ls) :
        CrpsCandidates(d, m, k) = SeqToSet(agg_meths) \X SeqToSet(n_ens_vec)

\* C15 witness: a score is missing for the first network type of one method,
\* and the table has no cell of that method for the second network type
\* either, whose scores are complete.
C15_Witness ==
    /\ best # <<>>
    /\ \E m \in SeqToSet(ens_method_ls) :
        /\ \E d \in SeqToSet(dataset_ls) :
              CrpsCandidates(d, m, "drn")
                  # SeqToSet(agg_meths) \X SeqToSet(n_ens_vec)
        /\ \A d \in SeqToSet(dataset_ls) :
              /\ CrpsCandidates(d, m, "bqn")
                    = SeqToSet(agg_meths) \X SeqToSet(n_ens_vec)
              /\ BestCells(m, "bqn", d) = {}

\* a CRPS score of network k is NaN for ensemble method m: a cell of one of
\* the datasets has no rows
HasNaNScore(m, k) ==
    \E d \in SeqToSet(dataset_ls) :
        CrpsCandidates(d, m, k) # SeqToSet(agg_meths) \X SeqToSet(n_ens_vec)

\* C27: a NaN CRPS score among the rows of one network type for an ensemble
\* method suppresses only the best results of that network type for that
\* method: the best results of every network type without a NaN score are
\* stored, also of those that come later in nn_vec, and those of the other
\* ensemble methods as well.
C27_NaNSuppressesOneColumn ==
    best # <<>> =>
        \A m \in SeqToSet(ens_method_ls), k \in SeqToSet(nn_vec),
           d \in SeqToSet(dataset_ls) :
            IF HasNaNScore(m, k) THEN BestCells(m, k, d) = {}
                                 ELSE Cardinality(BestCells(m, k, d)) = 1

\* the first method has a NaN score for drn only and bqn, which comes later
\* in nn_vec, has no best result for it, while the second method, without
\* NaN scores, has the best results of both network types
C27_Witness ==
    /\ best # <<>>
    /\ HasNaNScore(ens_method_ls[1], "drn")
    /\ ~HasNaNScore(ens_method_ls[1], "bqn")
    /\ \A d \in SeqToSet(dataset_ls) :
          /\ BestCells(ens_method_ls[1], "bqn", d) = {}
          /\ BestCells(ens_method_ls[1], "drn", d) = {}
    /\ \A k \in SeqToSet(nn_vec), d \in SeqToSet(dataset_ls) :
          /\ ~HasNaNScore(ens_method_ls[2], k)
          /\ Cardinality(BestCells(ens_method_ls[2], k, d)) = 1

(***************************************************************************)
(* ss_1_ensemble.py: Parallel(n_jobs, backend="multiprocessing") runs one  *)
(* run_ensemble task per (scenario, replicate) pair in worker processes.   *)
(* A task loads its input file, and for every network variant sets the     *)
(* seed and trains and saves n_ens members.  Nothing catches an exception: *)
(* a task that raises makes Parallel stop dispatching, terminate the       *)
(* workers and raise in the parent, at some time after the failure.  The   *)
(* workers run at the same time as the parent, so a task is a sequence of  *)
(* steps (job[t].pc) between which the termination can fall: "load" (the   *)
(* open of line 35), "seed" (line 61), "train" (lines 66-96), "write" (the  *)
(* open of line 98), "dump" (line 99) and "return".                        *)
(***************************************************************************)
\* the scenarios of the study (line 121)
sim_scenario_vec == <<1, 4>>

\* itertools.product(scenario_vec, range(n_sim)) (line 148)
TaskList ==
    [t \in 1 .. Len(sim_scenario_vec) * n_sim |->
        <<sim_scenario_vec[((t - 1) \div n_sim) + 1], (t - 1) % n_sim>>]

Workers == 1 .. n_jobs

\* str(i) of a natural number, as the sequence of its decimal digits
RECURSIVE str(_)
str(i) ==
    LET d == <<"0", "1", "2", "3", "4", "5", "6", "7", "8", "9">>
    IN  IF i < 10 THEN <<d[i + 1]>> ELSE str(i \div 10) \o <<d[(i % 10) + 1]>>

\* f"{temp_nn}_scen_{i_scenario}_sim_{i_sim}_ens_{i_ens}.pkl" (lines 93-95)
filename_without_sim(temp_nn, i_scenario, i_sim, i_ens) ==
    <<temp_nn, "_scen_">> \o str(i_scenario) \o <<"_ens_">> \o str(i_ens)
        \o <<".pkl">>

filename(temp_nn, i_scenario, i_sim, i_ens) ==
    <<temp_nn, "_scen_">> \o str(i_scenario) \o <<"_sim_">> \o str(i_sim)
        \o <<"_ens_">> \o str(i_ens) \o <<".pkl">>

\* the state of numpy's generator when the member loop of variant number k
\* starts: np.random.seed(123 + 10 * i_scenario + 100 * i_sim) (line 61)
SeedOnce(state, i_scenario, i_sim, k) ==
    IF k = 1 THEN <<123 + 10 * i_scenario + 100 * i_sim, 0>> ELSE state

Seed(state, i_scenario, i_sim, k) ==
    <<123 + 10 * i_scenario + 100 * i_sim, 0>>

\* the members run_ensemble saves: (variant, scenario, replicate, index)
AllKeys ==
    {<<nn_vec[k], TaskList[t][1], TaskList[t][2], e>> :
        k \in 1 .. Len(nn_vec), t \in 1 .. Len(TaskList), e \in 0 .. sim_n_ens - 1}

\* the input files: all there, or the file of one pair missing
EnsInit ==
    /\ AggIdle
    /\ PanelIdle
    /\ ResIdle
    /\ RunIdle
    /\ ReadIdle
    /\ SkillIdle
    /\ data_in \in {{TaskList[t] : t \in 1 .. Len(TaskList)} \ miss :
                      miss \in {{}} \cup
                          {{TaskList[t]} : t \in 1 .. Len(TaskList)}}
    /\ dispatch = "running"
    /\ job = [t \in 1 .. Len(TaskList) |->
                [st |-> "pending", w |-> 0, pc |-> "load", k |-> 1, e |-> 0,
                 starts |-> <<>>]]
    /\ rng = [proc \in Workers |-> <<0, 0>>]
    /\ disk = {}
    /\ saves = [key \in AllKeys |-> 0]

\* a worker without a task
Idle(proc) ==
    \A t \in 1 .. Len(TaskList) : ~(job[t].st = "running" /\ job[t].w = proc)

\* a task at position p of run_ensemble
At(t, p) == job[t].st = "running" /\ job[t].pc = p

\* an idle worker of the pool fetches the next call (lines 139-148)
StartTask(proc) ==
    /\ dispatch = "running"
    /\ Idle(proc)
    /\ \E t \in 1 .. Len(TaskList) :
        /\ job[t].st = "pending"
        /\ \A t2 \in 1 .. t - 1 : job[t2].st # "pending"
        /\ job' = [job EXCEPT ![t] =
                    [@ EXCEPT !.st = "running", !.w = proc, !.pc = "load"]]
    /\ UNCHANGED <<skillVars, readVars, runVars, aggVars, panelVars, resVars, data_in, dispatch, rng, disk,
                   saves>>

\* the task loads its data (lines 32-52); open() raises when the input file
\* does not exist, and the exception ends the task
LoadData(t) ==
    /\ dispatch = "running"
    /\ At(t, "load")
    /\ job' = [job EXCEPT ![t] =
                IF TaskList[t] \in data_in
                    THEN [@ EXCEPT !.pc = "seed"]
                    ELSE [@ EXCEPT !.st = "failed"]]
    /\ UNCHANGED <<skillVars, readVars, runVars, aggVars, panelVars, resVars, data_in, dispatch, rng, disk,
                   saves>>

\* the seed is set before the member loop of a network variant (lines 56-61)
SetSeed(t) ==
    /\ dispatch = "running"
    /\ At(t, "seed")
    /\ LET proc  == job[t].w
           state == Seed(rng[proc], TaskList[t][1], TaskList[t][2], job[t].k)
       IN  /\ rng' = [rng EXCEPT ![proc] = state]
           /\ job' = [job EXCEPT ![t] =
                        [@ EXCEPT !.pc = "train",
                                  !.starts = Append(@, state)]]
    /\ UNCHANGED <<skillVars, readVars, runVars, aggVars, panelVars, resVars, data_in, dispatch, disk,
                   saves>>

\* a member is trained and its forecasts are computed (lines 64-96); the
\* training draws from numpy's generator
Train(t) ==
    /\ dispatch = "running"
    /\ At(t, "train")
    /\ rng' = [rng EXCEPT ![job[t].w] = <<@[1], @[2] + 1>>]
    /\ job' = [job EXCEPT ![t] = [@ EXCEPT !.pc = "write"]]
    /\ UNCHANGED <<skillVars, readVars, runVars, aggVars, panelVars, resVars, data_in, dispatch, disk,
                   saves>>

\* the file of the member written by task t next
MemberFile(t, complete) ==
    [file     |-> filename(nn_vec[job[t].k], TaskList[t][1], TaskList[t][2],
                           job[t].e),
     key      |-> <<nn_vec[job[t].k], TaskList[t][1], TaskList[t][2],
                    job[t].e>>,
     complete |-> complete]

\* open(temp_data_out_path, "wb") (line 98): the file exists, nothing of the
\* member is in it yet
OpenOut(t) ==
    /\ dispatch = "running"
    /\ At(t, "write")
    /\ disk' = disk \cup {MemberFile(t, FALSE)}
    /\ job' = [job EXCEPT ![t] = [@ EXCEPT !.pc = "dump"]]
    /\ UNCHANGED <<skillVars, readVars, runVars, aggVars, panelVars, resVars, data_in, dispatch, rng,
                   saves>>

\* pickle.dump and the end of the with block (line 99): the member is saved;
\* the loops go on to the next member or variant, or run_ensemble is about
\* to return (lines 101-104)
Dump(t) ==
    /\ dispatch = "running"
    /\ At(t, "dump")
    /\ LET k        == job[t].k
           i_ens    == job[t].e
           last_ens == i_ens + 1 = sim_n_ens
           last_nn  == k = Len(nn_vec)
       IN  /\ disk' = (disk \ {MemberFile(t, FALSE)})
                          \cup {MemberFile(t, TRUE)}
           /\ saves' = [saves EXCEPT ![MemberFile(t, TRUE).key] = @ + 1]
           /\ job' = [job EXCEPT ![t] =
                [@ EXCEPT !.pc = IF last_ens /\ last_nn THEN "return"
                                 ELSE IF last_ens THEN "seed" ELSE "train",
                          !.k = IF last_ens /\ ~last_nn THEN k + 1 ELSE k,
                          !.e = IF last_ens THEN 0 ELSE i_ens + 1]]
    /\ UNCHANGED <<skillVars, readVars, runVars, aggVars, panelVars, resVars, data_in, dispatch, rng>>

\* run_ensemble returns and the worker hands the result to the parent
Return(t) ==
    /\ dispatch = "running"
    /\ At(t, "return")
    /\ job' = [job EXCEPT ![t] = [@ EXCEPT !.st = "done"]]
    /\ UNCHANGED <<skillVars, readVars, runVars, aggVars, panelVars, resVars, data_in, dispatch, rng, disk,
                   saves>>

\* Parallel notices the exception of a task: it terminates the workers, does
\* not dispatch the remaining tasks and raises (lines 139-149)
Abort ==
    /\ dispatch = "running"
    /\ \E t \in 1 .. Len(TaskList) : job[t].st = "failed"
    /\ dispatch' = "aborted"
    /\ job' = [t \in 1 .. Len(TaskList) |->
                IF job[t].st = "running" THEN [job[t] EXCEPT !.st = "killed"]
                                         ELSE job[t]]
    /\ UNCHANGED <<skillVars, readVars, runVars, aggVars, panelVars, resVars, data_in, rng, disk, saves>>

\* Parallel returns when every task has returned
Finish ==
    /\ dispatch = "running"
    /\ \A t \in 1 .. Len(TaskList) : job[t].st = "done"
    /\ dispatch' = "done"
    /\ UNCHANGED <<skillVars, readVars, runVars, aggVars, panelVars, resVars, data_in, job, rng, disk, saves>>

EnsNext ==
    \/ \E proc \in Workers : StartTask(proc)
    \/ \E t \in 1 .. Len(TaskList) : LoadData(t)
    \/ \E t \in 1 .. Len(TaskList) : SetSeed(t)
    \/ \E t \in 1 .. Len(TaskList) : Train(t)
    \/ \E t \in 1 .. Len(TaskList) : OpenOut(t)
    \/ \E t \in 1 .. Len(TaskList) : Dump(t)
    \/ \E t \in 1 .. Len(TaskList) : Return(t)
    \/ Abort
    \/ Finish

SpecEns == EnsInit /\ [][EnsNext]_vars

(***************************************************************************)
(* Claims about the parallel dispatch, checked under SpecEns.              *)
(***************************************************************************)
TaskIds == 1 .. Len(TaskList)

\* the members of task t
KeysOf(t) == {key \in AllKeys : <<key[2], key[3]>> = TaskList[t]}

\* C16: members with different (network, scenario, replicate, index) keys are
\* always written to different files, so no file ever holds the members of
\* two (scenario, replicate) pairs and no task overwrites another's result.
C16_DistinctKeysDistinctFiles ==
    /\ \A x, y \in disk : x.key # y.key => x.file # y.file
    /\ \A x, y \in disk :
          <<x.key[2], x.key[3]>> # <<y.key[2], y.key[3]>> => x.file # y.file

\* C16 witness: two tasks run at the same time in different workers and both
\* have saved members.
C16_Witness ==
    \E t1, t2 \in TaskIds :
        /\ t1 # t2
        /\ job[t1].st = "running" /\ job[t2].st = "running"
        /\ job[t1].w # job[t2].w
        /\ \E x, y \in disk :
              /\ <<x.key[2], x.key[3]>> = TaskList[t1]
              /\ <<y.key[2], y.key[3]>> = TaskList[t2]

\* C17 as stated: when the dispatch has ended, every task that did not fail
\* itself has run to completion and all of its members are saved.
C17_FailureSparesSiblings ==
    dispatch \in {"done", "aborted"} =>
        \A t \in TaskIds :
            job[t].st # "failed" =>
                /\ job[t].st = "done"
                /\ \A key \in KeysOf(t) : saves[key] >= 1

\* C17 witness: the dispatch was aborted after a task failed; a sibling was
\* terminated after saving some of its members and another never started.
C17_Witness ==
    /\ dispatch = "aborted"
    /\ \E t \in TaskIds : job[t].st = "failed"
    /\ \E t \in TaskIds :
          /\ job[t].st = "killed"
          /\ \E key \in KeysOf(t) : saves[key] = 1
          /\ \E key \in KeysOf(t) : saves[key] = 0
    /\ \E t \in TaskIds : job[t].st = "pending"

\* C19: the generator state from which the member loop of a network variant
\* starts is the seed 123 + 10 * scenario + 100 * replicate, freshly set: it
\* depends on the (scenario, replicate) pair only, not on the worker, on the
\* tasks the worker ran before or on the variants processed before.
C19_SeedPerScenarioAndReplicate ==
    dispatch # "idle" =>
        \A t \in TaskIds :
            \A j \in 1 .. Len(job[t].starts) :
                job[t].starts[j] =
                    <<123 + 10 * TaskList[t][1] + 100 * TaskList[t][2], 0>>

\* C19 witness: a task has started its second variant in a worker that ran
\* another task before.
C19_Witness ==
    \E t1, t2 \in TaskIds :
        /\ t1 # t2
        /\ job[t1].st = "done"
        /\ job[t2].w = job[t1].w
        /\ Len(job[t2].starts) = Len(nn_vec)
        /\ Len(nn_vec) >= 2
        /\ rng[job[t2].w][2] > 0

\* C20 as stated: every (scenario, replicate) pair gets exactly one task, and
\* when the dispatch has ended every member of every task has been saved
\* exactly once; no member is ever saved twice.
C20_EveryMemberSavedOnce ==
    /\ dispatch # "idle" =>
        /\ \A t1, t2 \in TaskIds : TaskList[t1] = TaskList[t2] => t1 = t2
        /\ \A i \in 1 .. Len(sim_scenario_vec), i_sim \in 0 .. n_sim - 1 :
              \E t \in TaskIds : TaskList[t] = <<sim_scenario_vec[i], i_sim>>
        /\ \A key \in AllKeys : saves[key] <= 1
    /\ dispatch \in {"done", "aborted"} =>
        \A key \in AllKeys : saves[key] = 1

\* C20 witness: the dispatch was aborted because a task raised, and a task
\* that was still waiting has saved no member.
C20_Witness ==
    /\ dispatch = "aborted"
    /\ \E t \in TaskIds :
          /\ job[t].st = "pending"
          /\ \A key \in KeysOf(t) : saves[key] = 0
    /\ \E t \in TaskIds :
          /\ job[t].st = "done"
          /\ \A key \in KeysOf(t) : saves[key] = 1

(***************************************************************************)
(* run_all.py: the script that runs the study for every ensemble method.   *)
(* The script is sequential: it calls the stages one after another and an  *)
(* exception of a stage ends it, there being no try statement.  What a     *)
(* stage does is not part of the script: a call starts between one and     *)
(* MaxUnits units of work, which finish one by one or raise, and the call  *)
(* returns when none of them is unfinished.                                *)
(***************************************************************************)
\* line 30-38
methods ==
    << "rand_init", "bagging", "mc_dropout", "variational_dropout",
       "concrete_dropout", "bayesian", "batchensemble" >>

\* a wrong order of the calls: the scores before the aggregation
StagesScoresFirst ==
    << "ss_1_ensemble.main", "ss_3_scores.main", "ss_2_aggregation.main",
       "figures.plot_panel_model", "figures.plot_panel_boxplot",
       "figures.plot_pit_ens" >>

\* the calls of lines 51-63 (and of lines 67-79), in the order of the script
Stages ==
    << "ss_1_ensemble.main", "ss_2_aggregation.main", "ss_3_scores.main",
       "figures.plot_panel_model", "figures.plot_panel_boxplot",
       "figures.plot_pit_ens" >>

\* the work a call starts
UnitsOf(method, stage, nu) == {<<method, stage, u>> : u \in 1 .. nu}

\* the running call has no unfinished work
StageFinished == \A u \in units : ~(u[1] = i_method /\ u[2] = i_stage)

RunInit ==
    /\ AggIdle
    /\ PanelIdle
    /\ ResIdle
    /\ EnsIdle
    /\ ReadIdle
    /\ SkillIdle
    /\ multi_run \in BOOLEAN
    /\ CONFIG \in {methods[j] : j \in 1 .. Len(methods)}
    /\ run_pc = "start"
    /\ i_method = 0
    /\ i_stage = 0
    /\ units = {}
    /\ run_log = <<>>

\* line 40: if multi_run
RunStart ==
    /\ run_pc = "start"
    /\ IF multi_run
         THEN /\ run_pc' = "loop"
              /\ i_stage' = i_stage
         ELSE /\ run_pc' = "call"
              /\ i_stage' = 1
    /\ UNCHANGED <<skillVars, readVars, aggVars, panelVars, resVars, ensVars, multi_run, CONFIG,
                   i_method, units, run_log>>

\* a loop that writes src/config.json for the first method only
WriteConfigOnce ==
    /\ run_pc = "loop"
    /\ i_method < Len(methods)
    /\ i_method' = i_method + 1
    /\ CONFIG' = IF i_method = 0 THEN methods[1] ELSE CONFIG
    /\ i_stage' = 1
    /\ run_pc' = "call"
    /\ UNCHANGED <<skillVars, readVars, aggVars, panelVars, resVars, ensVars,
                   multi_run, units, run_log>>

\* lines 41-49: the next ens_method, written to src/config.json
WriteConfig ==
    /\ run_pc = "loop"
    /\ i_method < Len(methods)
    /\ i_method' = i_method + 1
    /\ CONFIG' = methods[i_method + 1]
    /\ i_stage' = 1
    /\ run_pc' = "call"
    /\ UNCHANGED <<skillVars, readVars, aggVars, panelVars, resVars, ensVars, multi_run, units,
                   run_log>>

\* line 41: the list of methods is exhausted
LoopEnd ==
    /\ run_pc = "loop"
    /\ i_method = Len(methods)
    /\ run_pc' = "done"
    /\ UNCHANGED <<skillVars, readVars, aggVars, panelVars, resVars, ensVars, multi_run, CONFIG,
                   i_method, i_stage, units, run_log>>

\* one of the calls of lines 52-63 (67-79) is made
StageCall ==
    /\ run_pc = "call"
    /\ \E nu \in 1 .. MaxUnits :
        units' = units \cup UnitsOf(i_method, i_stage, nu)
    /\ run_log' = Append(run_log, [ev |-> "call", method |-> i_method,
                                   stage |-> Stages[i_stage]])
    /\ run_pc' = "in"
    /\ UNCHANGED <<skillVars, readVars, aggVars, panelVars, resVars, ensVars, multi_run, CONFIG,
                   i_method, i_stage>>

\* a unit of work finishes
StageWork ==
    /\ run_pc \in {"call", "in", "loop"}
    /\ \E u \in units : units' = units \ {u}
    /\ UNCHANGED <<skillVars, readVars, aggVars, panelVars, resVars, ensVars, multi_run, CONFIG,
                   run_pc, i_method, i_stage, run_log>>

\* a unit of work of the running call raises: the exception leaves the call
\* and, not being caught, the script
StageRaise ==
    /\ run_pc = "in"
    /\ ~StageFinished
    /\ run_log' = Append(run_log, [ev |-> "raise", method |-> i_method,
                                   stage |-> Stages[i_stage]])
    /\ run_pc' = "raised"
    /\ UNCHANGED <<skillVars, readVars, aggVars, panelVars, resVars, ensVars, multi_run, CONFIG,
                   i_method, i_stage, units>>

\* the running call returns; the script goes on with the next statement
StageReturn ==
    /\ run_pc = "in"
    /\ StageFinished
    /\ run_log' = Append(run_log, [ev |-> "return", method |-> i_method,
                                   stage |-> Stages[i_stage]])
    /\ IF i_stage < Len(Stages)
         THEN /\ i_stage' = i_stage + 1
              /\ run_pc' = "call"
         ELSE /\ i_stage' = i_stage
              /\ run_pc' = IF multi_run THEN "loop" ELSE "done"
    /\ UNCHANGED <<skillVars, readVars, aggVars, panelVars, resVars, ensVars, multi_run, CONFIG,
                   i_method, units>>

RunNext ==
    \/ RunStart
    \/ WriteConfig
    \/ LoopEnd
    \/ StageCall
    \/ StageWork
    \/ StageRaise
    \/ StageReturn

SpecRun == RunInit /\ [][RunNext]_vars

(***************************************************************************)
(* Claims about run_all, checked under SpecRun.                            *)
(***************************************************************************)
\* the step of the study a call belongs to: 1 ensemble generation,
\* 2 aggregation, 3 scoring, 4 plotting
StepOf(stage) ==
    CASE stage = "ss_1_ensemble.main"    -> 1
      [] stage = "ss_2_aggregation.main" -> 2
      [] stage = "ss_3_scores.main"      -> 3
      [] OTHER                           -> 4

Calls == {i \in 1 .. Len(run_log) : run_log[i].ev = "call"}

\* the log has, before position i, the return of a call of step st for method
Returned(i, method, st) ==
    \E j \in 1 .. i - 1 :
        /\ run_log[j].ev = "return"
        /\ run_log[j].method = method
        /\ StepOf(run_log[j].stage) = st

\* C18: for every method the calls are made in the order ensemble
\* generation, aggregation, scoring, plotting; a call is made only when the
\* call before it has returned, so that while the scoring or the plotting of
\* a method runs no work of its ensemble generation or aggregation is
\* unfinished; and the methods are processed one after another in the order
\* of the list.
C18_StagesInOrder ==
    /\ \A i \in Calls :
        /\ i > 1 => run_log[i - 1].ev = "return"
        /\ \A st \in 1 .. StepOf(run_log[i].stage) - 1 :
               Returned(i, run_log[i].method, st)
        /\ \A j \in Calls :
               j < i =>
                 /\ run_log[j].method <= run_log[i].method
                 /\ run_log[j].method = run_log[i].method =>
                        StepOf(run_log[j].stage) <= StepOf(run_log[i].stage)
                 /\ run_log[j].method < run_log[i].method =>
                        \A st \in 1 .. 4 : Returned(i, run_log[j].method, st)
        /\ multi_run => run_log[i].method \in 1 .. Len(methods)
        /\ (multi_run /\ run_log[i].method > 1) =>
               \E j \in Calls : j < i /\ run_log[j].method = run_log[i].method - 1
    /\ \A i \in 1 .. Len(run_log) :
        run_log[i].ev = "return" =>
            /\ i > 1
            /\ run_log[i - 1].ev = "call"
            /\ run_log[i - 1].method = run_log[i].method
            /\ run_log[i - 1].stage = run_log[i].stage
    /\ (run_pc = "in" /\ StepOf(Stages[i_stage]) >= 3) =>
           \A u \in units : ~(u[1] = i_method /\ StepOf(Stages[u[2]]) < 3)

\* the scoring of the third method is running after the first two methods
\* have been processed completely
C18_Witness ==
    /\ multi_run
    /\ run_pc = "in"
    /\ i_method = 3
    /\ Stages[i_stage] = "ss_3_scores.main"
    /\ Returned(Len(run_log), 1, 4)
    /\ Returned(Len(run_log), 2, 4)
    /\ Returned(Len(run_log), 3, 2)

\* C25: in the loop over the methods, while a stage of method m is about to
\* be called, is running or has raised, the ENS_METHOD entry of the
\* configuration file is m: the file is rewritten before the first stage of m
\* and not again before the last stage of m has returned.
C25_ConfigNamesRunningMethod ==
    (multi_run /\ run_pc \in {"call", "in", "raised"}) =>
        /\ i_method \in 1 .. Len(methods)
        /\ CONFIG = methods[i_method]

\* the plotting of the second method is running, the file naming this method
C25_Witness ==
    /\ multi_run
    /\ run_pc = "in"
    /\ i_method = 2
    /\ Stages[i_stage] = "figures.plot_pit_ens"
    /\ CONFIG = methods[2]
    /\ Returned(Len(run_log), 1, 4)
    /\ Returned(Len(run_log), 2, 3)

(***************************************************************************)
(* The readers of the persisted results: the loop of get_panel_data over   *)
(* the evaluation files (results.py, lines 39-44), the read of eval_ss.pkl *)
(* by plot_pit_ens (figures.py, lines 573-574) and its loops over the      *)
(* ensemble members and the aggregated forecasts (lines 583-642).  Every   *)
(* read is open() followed by pickle.load(); open() raises                 *)
(* FileNotFoundError when the file does not exist and neither reader has a *)
(* try statement.  A state with read_pc = "loop" is the state at the       *)
(* open() of the next file: the statements before it have been executed.   *)
(***************************************************************************)
\* plot_pit_ens: n_ens = 2
pit_n_ens == 2

\* f"eval_{dataset}_{ens_method}.pkl" (results.py, line 41)
eval_filename(dataset, ens_method) ==
    <<"eval_", dataset, "_", ens_method, ".pkl">>

\* f"{temp_nn}_scen_{i_scenario}_sim_{i_sim}_{temp_agg}_ens_{n_ens}.pkl"
agg_filename(temp_nn, i_scenario, i_sim, temp_agg, size) ==
    <<temp_nn, "_scen_">> \o str(i_scenario) \o <<"_sim_">> \o str(i_sim)
        \o <<"_", temp_agg, "_ens_">> \o str(size) \o <<".pkl">>

\* the reads of get_panel_data, in the order of the loop over dataset_ls
PanelReads(ens_method) ==
    [d \in 1 .. Len(dataset_ls) |->
        [kind  |-> "eval",
         file  |-> eval_filename(dataset_ls[d], ens_method),
         label |-> <<dataset_ls[d]>>,
         reset |-> FALSE, first |-> FALSE, last |-> FALSE, end |-> FALSE]]

\* lines 573-574: plot_pit_ens loads eval_ss.pkl before its loops
ScoresRead ==
    <<[kind  |-> "scores",
       file  |-> <<eval_ss>>,
       label |-> <<>>,
       reset |-> FALSE, first |-> FALSE, last |-> FALSE, end |-> FALSE]>>

\* lines 608-618: for i_rep in range(n_ens): for i_sim in range(n_sim)
MemberReads(temp_nn, i_scenario, first_nn) ==
    [r \in 1 .. pit_n_ens * n_sim |->
        LET i_rep == (r - 1) \div n_sim
            i_sim == (r - 1) % n_sim
        IN  [kind  |-> "member",
             file  |-> filename(temp_nn, i_scenario, i_sim, i_rep),
             label |-> <<temp_nn, "_", "ens">>,
             reset |-> first_nn /\ r = 1,
             first |-> r = 1,
             last  |-> r = pit_n_ens * n_sim,
             end   |-> FALSE]]

\* lines 625-639: for temp_agg in agg_meths: for i_sim in range(n_sim);
\* last_nn: the loop over nn_vec ends with these reads
AggReads(temp_nn, i_scenario, last_nn) ==
    [r \in 1 .. Len(plot_agg_meths) * n_sim |->
        LET temp_agg == plot_agg_meths[((r - 1) \div n_sim) + 1]
            i_sim    == (r - 1) % n_sim
        IN  [kind  |-> "agg",
             file  |-> agg_filename(temp_nn, i_scenario, i_sim, temp_agg,
                                    pit_n_ens),
             label |-> <<temp_nn, "_", temp_agg>>,
             reset |-> FALSE,
             first |-> i_sim = 0,
             last  |-> i_sim = n_sim - 1,
             end   |-> last_nn /\ r = Len(plot_agg_meths) * n_sim]]

\* the reads of plot_pit_ens, in the order of the code (lines 573-642)
PitReads ==
    ScoresRead \o
    Concat([c \in 1 .. Len(sim_scenario_vec) |->
        Concat([k \in 1 .. Len(nn_vec) |->
            MemberReads(nn_vec[k], sim_scenario_vec[c], k = 1)
                \o AggReads(nn_vec[k], sim_scenario_vec[c],
                            k = Len(nn_vec))])])

\* the reads of the running reader
Reads ==
    IF reader = <<>> THEN <<>>
    ELSE IF reader[1] = "get_panel_data" THEN PanelReads(reader[2])
    ELSE PitReads

AllFiles ==
    {PitReads[r].file : r \in 1 .. Len(PitReads)}
        \cup {eval_filename(dataset_ls[d], ens_method_ls[j]) :
                <<d, j>> \in (1 .. Len(dataset_ls)) \X (1 .. Len(ens_method_ls))}

\* pred_nn["scores"]["pit"] of an ensemble member: run_ensemble predicts
\* np.r_[X_train[i_valid, :], X_test], the validation rows first
MemberPit ==
    [p \in 1 .. n_valid + pit_n_test |->
        IF p <= n_valid THEN [part |-> "valid", row |-> p - 1]
                        ELSE [part |-> "test", row |-> p - 1 - n_valid]]

\* pred_agg["scores"]["pit"] of an aggregated forecast: the test rows
AggPit == [p \in 1 .. pit_n_test |-> [part |-> "test", row |-> p - 1]]

\* max() of a list of integers
ListMax(xs) == CHOOSE x \in {xs[j] : j \in 1 .. Len(xs)} :
                   \A j \in 1 .. Len(xs) : xs[j] <= x

\* line 589: i_valid = list(range(n_valid))
i_valid == [p \in 1 .. n_valid |-> p - 1]

\* lines 590-595: i_test = [max(i_valid) + el for el in list(range(n_test))]
i_test == [el \in 1 .. pit_n_test |-> ListMax(i_valid) + (el - 1)]

\* arr[idx] of numpy: the entries at the positions idx, counted from 0
TakeAt(arr, idx) == [j \in 1 .. Len(idx) |-> arr[idx[j] + 1]]

ReadInit ==
    /\ AggIdle
    /\ PanelIdle
    /\ ResIdle
    /\ EnsIdle
    /\ RunIdle
    /\ SkillIdle
    /\ reader \in {<<"plot_pit_ens">>}
                    \cup {<<"get_panel_data", ens_method_ls[j]>> :
                            j \in 1 .. Len(ens_method_ls)}
    /\ on_disk \in {AllFiles} \cup {AllFiles \ {f} : f \in AllFiles}
    /\ n_valid \in 1 .. MaxValid
    /\ pit_n_test \in 1 .. MaxTest
    /\ read_pc = "loop"
    /\ read_pos = 1
    /\ loaded = <<>>
    /\ temp_pit = <<>>
    /\ pit_ls = {}

\* the statements between a read and the open() of the read next: line 599
\* (pit_ls = {}) at the start of a scenario, lines 605 and 627 (temp_pit = [])
\* at the start of the files of one histogram
BeforeOpen(next, list, dict) ==
    [temp_pit |-> IF next.first THEN <<>> ELSE list,
     pit_ls   |-> IF next.reset THEN {} ELSE dict]

\* the next file exists: it is opened and loaded, plot_pit_ens reads out its
\* PIT values (lines 618 and 639) and stores the list when the loop over the
\* files of one histogram ends (lines 621 and 642); the reader goes on to the
\* open() of the file next, or to the histograms when the scenario ends
ReadFile ==
    /\ read_pc = "loop"
    /\ Reads[read_pos].file \in on_disk
    /\ LET r     == Reads[read_pos]
           value == IF r.kind = "member" THEN TakeAt(MemberPit, i_test)
                                         ELSE AggPit
           list  == IF r.kind \in {"member", "agg"}
                       THEN Append(temp_pit, value) ELSE temp_pit
           dict  == IF r.last
                       THEN {e \in pit_ls : e[1] # r.label}
                                \cup {<<r.label, list>>}
                       ELSE pit_ls
           more  == read_pos < Len(Reads)
           after == IF more /\ ~r.end
                       THEN BeforeOpen(Reads[read_pos + 1], list, dict)
                       ELSE [temp_pit |-> list, pit_ls |-> dict]
       IN  /\ loaded' = Append(loaded, r.file)
           /\ temp_pit' = after.temp_pit
           /\ pit_ls' = after.pit_ls
           /\ read_pc' = IF r.end THEN "hist"
                         ELSE IF more THEN "loop" ELSE "done"
    /\ read_pos' = read_pos + 1
    /\ UNCHANGED <<skillVars, aggVars, panelVars, resVars, ensVars, runVars, reader,
                   on_disk, n_valid, pit_n_test>>

\* lines 644-720: the histograms of a scenario are computed from pit_ls and
\* drawn; the loop goes on to the scenario next (lines 583-605) or ends
PitHistograms ==
    /\ read_pc = "hist"
    /\ IF read_pos <= Len(Reads)
          THEN /\ read_pc' = "loop"
               /\ temp_pit' =
                     BeforeOpen(Reads[read_pos], temp_pit, pit_ls).temp_pit
               /\ pit_ls' =
                     BeforeOpen(Reads[read_pos], temp_pit, pit_ls).pit_ls
          ELSE /\ read_pc' = "done"
               /\ UNCHANGED <<temp_pit, pit_ls>>
    /\ UNCHANGED <<skillVars, aggVars, panelVars, resVars, ensVars, runVars, reader,
                   on_disk, n_valid, pit_n_test, read_pos, loaded>>

\* the next file does not exist: open() raises and the exception leaves the
\* reader
ReadRaise ==
    /\ read_pc = "loop"
    /\ Reads[read_pos].file \notin on_disk
    /\ read_pc' = "raised"
    /\ UNCHANGED <<skillVars, aggVars, panelVars, resVars, ensVars, runVars, reader,
                   on_disk, n_valid, pit_n_test, read_pos, loaded, temp_pit,
                   pit_ls>>

ReadNext == ReadFile \/ PitHistograms \/ ReadRaise

SpecRead == ReadInit /\ [][ReadNext]_vars

(***************************************************************************)
(* Claims about the readers, checked under SpecRead.                       *)
(***************************************************************************)
LoadedFiles == {loaded[j] : j \in 1 .. Len(loaded)}

\* C21: a reader tolerates a missing file: it does not abort, and when it
\* has ended it has read every file of its keys that exists.
C21_MissingRecordTolerated ==
    /\ read_pc # "raised"
    /\ read_pc = "done" =>
         \A r \in 1 .. Len(Reads) :
             Reads[r].file \in on_disk => Reads[r].file \in LoadedFiles

\* a reader has aborted at a missing file although files of later keys exist
C21_Witness ==
    /\ read_pc = "raised"
    /\ Reads[read_pos].file \notin on_disk
    /\ \E r \in read_pos + 1 .. Len(Reads) :
          /\ Reads[r].file \in on_disk
          /\ Reads[r].file \notin LoadedFiles

\* the PIT values plot_pit_ens has stored for the histograms of the
\* ensemble members, one array per member file
MemberPitsStored ==
    {e[2][j] : e \in {x \in pit_ls : x[1][3] = "ens"}, j \in 1 .. pit_n_ens * n_sim}

TestRows == {[part |-> "test", row |-> t] : t \in 0 .. pit_n_test - 1}

\* C26: the PIT values read from an ensemble member are exactly those of the
\* n_test test instances: no validation instance is included and no test
\* instance is left out.
C26_PitOfTestInstances ==
    \A v \in MemberPitsStored : {v[j] : j \in 1 .. Len(v)} = TestRows

\* the PIT values stored for a member hold the last validation instance and
\* lack the last test instance
C26_Witness ==
    \E v \in MemberPitsStored :
        /\ \E j \in 1 .. Len(v) : v[j] = [part |-> "valid", row |-> n_valid - 1]
        /\ \A j \in 1 .. Len(v) : v[j] # [part |-> "test", row |-> pit_n_test - 1]
        /\ Len(v) = pit_n_test

(***************************************************************************)
(* Claims about the rows of get_panel_data, checked under SpecPanel.       *)
(***************************************************************************)
\* the rows of panel for one dataset, network type, ensemble size, metric and
\* aggregation label
PanelRowsOf(c_dataset, c_nn, c_size, c_metric, c_agg) ==
    {c_row \in 1 .. Len(panel) :
        /\ panel[c_row].dataset = c_dataset
        /\ panel[c_row].nn = c_nn
        /\ panel[c_row].n_ens = c_size
        /\ panel[c_row].metric = c_metric
        /\ panel[c_row].agg = c_agg}

\* the rows the claim excepts
NoRowExpected(c_metric, c_agg) ==
    \/ c_metric = "crpss" /\ c_agg \in {"opt", "ens"}
    \/ c_metric \in {"a", "w"} /\ c_agg = "opt"

PanelFields == {"dataset", "nn", "metric", "n_ens", "agg", "score"}

\* C23: get_panel_data emits, for each dataset, network type, ensemble size
\* and metric, exactly one row per aggregation label of ['opt', 'ens'] +
\* agg_meths, except no 'opt' and no 'ens' row for crpss and no 'opt' row for
\* a and w; every row has exactly the fields dataset, nn, metric, n_ens, agg
\* and score.
C23_OneRowPerLabel ==
    panel # <<>> =>
        /\ \A c_dataset \in SeqElems(dataset_ls), c_nn \in SeqElems(nn_vec),
              c_size \in SeqElems(n_ens_vec), c_metric \in SeqElems(score_vec),
              c_agg \in SeqElems(<<"opt", "ens">> \o agg_meths) :
            Cardinality(PanelRowsOf(c_dataset, c_nn, c_size, c_metric, c_agg))
                = IF NoRowExpected(c_metric, c_agg) THEN 0 ELSE 1
        /\ \A c_row \in 1 .. Len(panel) :
            /\ DOMAIN panel[c_row] = PanelFields
            /\ panel[c_row].dataset \in SeqElems(dataset_ls)
            /\ panel[c_row].nn \in SeqElems(nn_vec)
            /\ panel[c_row].n_ens \in SeqElems(n_ens_vec)
            /\ panel[c_row].metric \in SeqElems(score_vec)
            /\ panel[c_row].agg \in SeqElems(<<"opt", "ens">> \o agg_meths)

\* the panel of a dataset has the 'opt' row of crps and one row per
\* aggregation method for crpss, a and w
C23_Witness ==
    /\ panel # <<>>
    /\ PanelRowsOf("scen_1", "bqn", 4, "crps", "opt") # {}
    /\ PanelRowsOf("scen_1", "bqn", 4, "crps", "ens") # {}
    /\ \A c_metric \in {"crpss", "a", "w"} :
          PanelRowsOf("boston", "drn", 2, c_metric, "vi-aw") # {}

(***************************************************************************)
(* get_skills_table (results.py, lines 227-314).                           *)
(***************************************************************************)
\* Series.unique(): the values in the order of their first appearance
Unique(xs) ==
    LET firsts == SelectSeq([j \in 1 .. Len(xs) |-> <<j, xs[j]>>],
                            LAMBDA p : \A j2 \in 1 .. p[1] - 1 : xs[j2] # p[2])
    IN  [j \in 1 .. Len(firsts) |-> firsts[j][2]]

\* a wrong pairing: the sizes taken from the end of n_ens_vec
ZipReversed(sizes, skills) ==
    LET len == IF Len(sizes) < Len(skills) THEN Len(sizes) ELSE Len(skills)
    IN  [size \in {sizes[j] : j \in 1 .. len} |->
            skills[CHOOSE j \in 1 .. len :
                      /\ sizes[Len(sizes) + 1 - j] = size
                      /\ \A j2 \in j + 1 .. len : sizes[Len(sizes) + 1 - j2] # size]]

\* lines 290-293: {f"skill_{n_ens}": skill for (n_ens, skill) in
\* zip(n_ens_vec, skills)}, a later pair replacing an earlier one of its key
Zip(sizes, skills) ==
    LET len == IF Len(sizes) < Len(skills) THEN Len(sizes) ELSE Len(skills)
    IN  [size \in {sizes[j] : j \in 1 .. len} |->
            skills[CHOOSE j \in 1 .. len :
                      /\ sizes[j] = size
                      /\ \A j2 \in j + 1 .. len : sizes[j2] # size]]

\* np.mean of a list
np_mean(xs) == FDiv(FSum(xs), Rat(Len(xs)))

\* lines 285-303: the row of one aggregation method
SkillRow(df_temp, ens_method, agg, sizes) ==
    LET df_temp_agg == SelectSeq(df_temp, LAMBDA r : r.agg = agg)
        skills      == Column(SelectSeq(df_temp_agg,
                                  LAMBDA r : r.metric = "crpss"), "score")
    IN  [ens_method |-> ens_method,
         dataset    |-> df_temp_agg[1].dataset,
         nn         |-> df_temp_agg[1].nn,
         agg        |-> df_temp_agg[1].agg,
         skill      |-> Zip(sizes, skills),
         avg_skill  |-> np_mean(skills)]

\* lines 276-312: the rows of one ensemble method
SkillRows(df, ens_method, sizes, aggs) ==
    LET ds == Unique(Column(df, "dataset"))
        ks == Unique(Column(df, "nn"))
    IN  Concat([d \in 1 .. Len(ds) |->
          Concat([k \in 1 .. Len(ks) |->
            [g \in 1 .. Len(aggs) |->
                SkillRow(SelectSeq(df, LAMBDA r : r.dataset = ds[d]
                                                  /\ r.nn = ks[k]),
                         ens_method, aggs[g], sizes)]])])

get_skills_table(datasets, scores, nns, sizes, aggs, ens_methods) ==
    Concat([m \in 1 .. Len(ens_methods) |->
        SkillRows(get_panel_data(datasets, scores, nns, sizes, aggs,
                                 ens_methods[m]),
                  ens_methods[m], sizes, aggs)])

\* the ensemble sizes and the scores a call may ask for
SizeVecs == {n_ens_vec, <<4, 2>>, <<4>>}

ScoreVecs == {score_vec, <<"crpss", "crps">>}

SkillInit ==
    /\ AggIdle
    /\ ResIdle
    /\ EnsIdle
    /\ RunIdle
    /\ ReadIdle
    /\ eval_files \in {f \in [FileKeys -> UNION {ScoreTables(dataset_ls[i]) :
                                            i \in 1 .. Len(dataset_ls)}] :
                        \A key \in FileKeys : f[key] \in ScoreTables(key[1])}
    /\ NothingComputed
    /\ skills_call \in [sizes : SizeVecs, scores : ScoreVecs]
    /\ df_skills = <<>>

\* a call of get_skills_table
GetSkillsTable ==
    /\ df_skills = <<>>
    /\ df_skills' = get_skills_table(dataset_ls, skills_call.scores, nn_vec,
                                     skills_call.sizes, agg_meths,
                                     ens_method_ls)
    /\ UNCHANGED <<aggVars, panelVars, resVars, ensVars, runVars, readVars,
                   skills_call>>

SkillNext == GetSkillsTable

SpecSkills == SkillInit /\ [][SkillNext]_vars

(***************************************************************************)
(* Claims about get_skills_table, checked under SpecSkills.                *)
(***************************************************************************)
\* the rows of df_skills for one ensemble method, dataset, network type and
\* aggregation method
SkillRowsOf(m, d, k, g) ==
    {i \in 1 .. Len(df_skills) :
        /\ df_skills[i].ens_method = m
        /\ df_skills[i].dataset = d
        /\ df_skills[i].nn = k
        /\ df_skills[i].agg = g}

\* the CRPSS get_panel_data computes for one cell (the rows of get_panel_data
\* do not depend on one another, so the cell alone is asked for)
PanelCrpss(p_method, p_dataset, p_nn, p_agg, p_size) ==
    LET p_df == get_panel_data(<<p_dataset>>, <<"crpss">>, <<p_nn>>,
                               <<p_size>>, <<p_agg>>, p_method)
    IN  {p_df[p_row].score : p_row \in 1 .. Len(p_df)}

\* C22: get_skills_table has exactly one row per ensemble method, dataset,
\* network type and aggregation method of agg_meths; its skill_n is the
\* CRPSS get_panel_data computed for ensemble size n of the same dataset,
\* network and aggregation method, for every n of n_ens_vec, and avg_skill is
\* the mean of these skills.
C22_SkillsPairedWithSizes ==
    df_skills # <<>> =>
        /\ Len(df_skills) = Len(ens_method_ls) * Len(dataset_ls) * Len(nn_vec)
                                * Len(agg_meths)
        /\ \A c_method \in SeqElems(ens_method_ls),
              c_dataset \in SeqElems(dataset_ls),
              c_nn \in SeqElems(nn_vec), c_agg \in SeqElems(agg_meths) :
            /\ Cardinality(SkillRowsOf(c_method, c_dataset, c_nn, c_agg)) = 1
            /\ \A c_row \in SkillRowsOf(c_method, c_dataset, c_nn, c_agg) :
                LET c_sizes == skills_call.sizes
                IN  /\ DOMAIN df_skills[c_row].skill = SeqElems(c_sizes)
                    /\ \A c_size \in SeqElems(c_sizes) :
                          PanelCrpss(c_method, c_dataset, c_nn, c_agg, c_size)
                              = {df_skills[c_row].skill[c_size]}
                    /\ df_skills[c_row].avg_skill =
                          np_mean([c_j \in 1 .. Len(c_sizes) |->
                                      df_skills[c_row].skill[c_sizes[c_j]]])

\* the table has been computed for ensemble sizes that are not in increasing
\* order, and a row holds different finite skills for the two sizes
C22_Witness ==
    /\ df_skills # <<>>
    /\ skills_call.sizes = <<4, 2>>
    /\ \E i \in 1 .. Len(df_skills) :
          /\ FFinite(df_skills[i].skill[2])
          /\ FFinite(df_skills[i].skill[4])
          /\ df_skills[i].skill[2] # df_skills[i].skill[4]
          /\ FFinite(df_skills[i].avg_skill)

(***************************************************************************)
(* Further claims about get_results, checked under SpecRes.                *)
(***************************************************************************)
\* the raw ranks that the rescaling maps to a bin
RanksInBin(bin) ==
    {rank \in 1 .. n_members + 1 :
        RankRescale(rank, self_n_ens, n_members) = bin}

\* the case of the claim: a number of levels that differs from n_ens, with
\* n_members + 1 a multiple of n_ens + 1
ExactCase ==
    /\ self_n_ens > 0
    /\ n_members # self_n_ens
    /\ (n_members + 1) % (self_n_ens + 1) = 0

\* C24: when the number of levels differs from n_ens and n_members + 1 is a
\* multiple of n_ens + 1, the rescaling maps the raw ranks 1 .. n_members + 1
\* onto the bins 1 .. n_ens + 1, exactly (n_members + 1) / (n_ens + 1) raw
\* ranks falling in each bin.
C24_RescalingExact ==
    ExactCase =>
        /\ \A rank \in 1 .. n_members + 1 :
              RankRescale(rank, self_n_ens, n_members) \in 1 .. self_n_ens + 1
        /\ \A bin \in 1 .. self_n_ens + 1 :
              Cardinality(RanksInBin(bin))
                  = (n_members + 1) \div (self_n_ens + 1)

\* get_results has rescaled a rank in the case of the claim, more than one
\* raw rank falling in each bin
C24_Witness ==
    /\ ExactCase
    /\ HasResults
    /\ (n_members + 1) \div (self_n_ens + 1) > 1
    /\ results.scores.rank[1] =
          RankRescale(ens_rank(results.f[1], Rat(y_test[1])), self_n_ens,
                      n_members)
    /\ results.scores.rank[1] # ens_rank(results.f[1], Rat(y_test[1]))

\* C28: get_results leaves the stored output of predict (and the model's
\* n_ens and levels) unchanged and what it returns depends on nothing else
\* than these and its argument, so that a further call of get_results returns
\* what this call returned: the same accumulated coefficients, quantiles and
\* ranks.
C28_GetResultsLeavesPrediction ==
    [][(results' # results \/ y_test' # y_test) =>
          /\ self_coeff_bern' = self_coeff_bern
          /\ self_n_ens' = self_n_ens
          /\ self_q_levels' = self_q_levels
          /\ results' = get_results(y_test')]_vars

\* get_results has returned, for a stored output with a positive increment
\* and a number of levels that differs from n_ens, what a further call
\* returns; accumulating the stored output once more would change it
C28_Witness ==
    /\ HasResults
    /\ results = get_results(y_test)
    /\ n_members # self_n_ens
    /\ AllFinite(self_coeff_bern[1])
    /\ CumSum(CumSum(self_coeff_bern[1])) # CumSum(self_coeff_bern[1])
    /\ results.alpha[1] = CumSum(self_coeff_bern[1])

====
